---- MODULE Spec2Model ----
(***************************************************************************)
(* The ADF <-> Markdown converter of atlassian-cli.                        *)
(*                                                                         *)
(* A JSON value (serde_json::Value) is a tagged record:                    *)
(*   [k |-> "null"], [k |-> "bool", b], [k |-> "int", n] (an integer that  *)
(*   fits i64), [k |-> "u64", d] (the integer i64::MAX + d, held as u64),  *)
(*   [k |-> "float", w, f] (the decimal w.f), [k |-> "str", s],            *)
(*   [k |-> "arr", a], [k |-> "obj", o] with o a function on its keys.     *)
(* A string is the sequence of its characters, so that formatting,         *)
(* concatenation, prefixes and line splitting are computed as the code     *)
(* computes them.  Option::None is [k |-> "none"].                         *)
(***************************************************************************)
EXTENDS Integers, Sequences, FiniteSets, TLC

VARIABLES
    pc,             \* position of the call being modelled
    value,          \* process_adf_input / validate_adf: the input Value
    field_name,     \* process_adf_input: the field name
    outcome,        \* the Result returned
    events,         \* markdown_to_adf: the parser events consumed so far
    stack,          \* markdown_to_adf: Vec<(Value, Vec<Value>)>
    doc_content,    \* markdown_to_adf: top-level nodes
    marks,          \* markdown_to_adf: active inline marks
    in_table_head,  \* markdown_to_adf: inside a table head
    source,         \* the Markdown document handed to text_to_adf, as its blocks
    adf,            \* the document handed to adf_to_markdown
    markdown,       \* the rendering returned by adf_to_markdown
    call_depth,     \* convert_block_node: the depth argument
    mark_text,      \* apply_marks: the text
    mark_list,      \* apply_marks: the marks (None when absent)
    marked,         \* apply_marks: the result
    args,           \* search_all: which API, the stream and as_markdown flags
    all_items,      \* search_all: all_issues / all_items
    next_page,      \* search_all: next_page_token / next_url
    page_num,       \* search_all: the number of the page being fetched
    requests,       \* search_all: what each request sent carried (token or url)
    pages,          \* search_all: the pages received, as the loop sees them
    printed         \* search_all: the lines written to stdout

inputVars   == <<value, field_name, outcome>>
builderVars == <<events, stack, doc_content, marks, in_table_head>>
renderVars  == <<source, adf, markdown, call_depth>>
markVars    == <<mark_text, mark_list, marked>>
searchVars  == <<args, all_items, next_page, page_num, requests, pages, printed>>
vars == <<pc, value, field_name, outcome, events, stack, doc_content, marks,
          in_table_head, source, adf, markdown, call_depth,
          mark_text, mark_list, marked, args, all_items, next_page, page_num,
          requests, pages, printed>>

----------------------------------------------------------------------------
(* String literals of the source, as character sequences.  The character  *)
(* U+0060 (the backquote of code spans and fences) cannot be written in a  *)
(* string here and is the atom Backtick.                                   *)
Backtick == "BACKTICK"
S_doc == <<"d", "o", "c">>
S_paragraph == <<"p", "a", "r", "a", "g", "r", "a", "p", "h">>
S_heading == <<"h", "e", "a", "d", "i", "n", "g">>
S_bulletList == <<"b", "u", "l", "l", "e", "t", "L", "i", "s", "t">>
S_orderedList == <<"o", "r", "d", "e", "r", "e", "d", "L", "i", "s", "t">>
S_listItem == <<"l", "i", "s", "t", "I", "t", "e", "m">>
S_codeBlock == <<"c", "o", "d", "e", "B", "l", "o", "c", "k">>
S_blockquote == <<"b", "l", "o", "c", "k", "q", "u", "o", "t", "e">>
S_rule == <<"r", "u", "l", "e">>
S_table == <<"t", "a", "b", "l", "e">>
S_tableRow == <<"t", "a", "b", "l", "e", "R", "o", "w">>
S_tableHeader == <<"t", "a", "b", "l", "e", "H", "e", "a", "d", "e", "r">>
S_tableCell == <<"t", "a", "b", "l", "e", "C", "e", "l", "l">>
S_text == <<"t", "e", "x", "t">>
S_hardBreak == <<"h", "a", "r", "d", "B", "r", "e", "a", "k">>
S_em == <<"e", "m">>
S_strong == <<"s", "t", "r", "o", "n", "g">>
S_strike == <<"s", "t", "r", "i", "k", "e">>
S_link == <<"l", "i", "n", "k">>
S_code == <<"c", "o", "d", "e">>
S_underline == <<"u", "n", "d", "e", "r", "l", "i", "n", "e">>
S_subsup == <<"s", "u", "b", "s", "u", "p">>
S_textColor == <<"t", "e", "x", "t", "C", "o", "l", "o", "r">>
S_backgroundColor ==
    << "b", "a", "c", "k", "g", "r", "o", "u", "n", "d", "C", "o", "l", "o", "r" >>
S_sup == <<"s", "u", "p">>
S_sub == <<"s", "u", "b">>
S_description == <<"d", "e", "s", "c", "r", "i", "p", "t", "i", "o", "n">>
S_comment == <<"c", "o", "m", "m", "e", "n", "t">>
M_not_object ==
    << "I", "n", "v", "a", "l", "i", "d", " ", "A", "D", "F", ":", " ", "m", "u", "s",
       "t", " ", "b", "e", " ", "a", "n", " ", "o", "b", "j", "e", "c", "t" >>
M_missing_type ==
    << "I", "n", "v", "a", "l", "i", "d", " ", "A", "D", "F", ":", " ", "m", "i", "s",
       "s", "i", "n", "g", " ", "r", "e", "q", "u", "i", "r", "e", "d", " ", "f", "i",
       "e", "l", "d", " ", "'", "t", "y", "p", "e", "'" >>
M_type_must_be_doc ==
    << "I", "n", "v", "a", "l", "i", "d", " ", "A", "D", "F", ":", " ", "t", "y", "p",
       "e", " ", "m", "u", "s", "t", " ", "b", "e", " ", "'", "d", "o", "c", "'", ",",
       " ", "g", "o", "t", " ", "'" >>
M_missing_version ==
    << "I", "n", "v", "a", "l", "i", "d", " ", "A", "D", "F", ":", " ", "m", "i", "s",
       "s", "i", "n", "g", " ", "r", "e", "q", "u", "i", "r", "e", "d", " ", "f", "i",
       "e", "l", "d", " ", "'", "v", "e", "r", "s", "i", "o", "n", "'" >>
M_version_must_be_1 ==
    << "I", "n", "v", "a", "l", "i", "d", " ", "A", "D", "F", ":", " ", "v", "e", "r",
       "s", "i", "o", "n", " ", "m", "u", "s", "t", " ", "b", "e", " ", "1", ",", " ",
       "g", "o", "t", " " >>
M_missing_content ==
    << "I", "n", "v", "a", "l", "i", "d", " ", "A", "D", "F", ":", " ", "m", "i", "s",
       "s", "i", "n", "g", " ", "r", "e", "q", "u", "i", "r", "e", "d", " ", "f", "i",
       "e", "l", "d", " ", "'", "c", "o", "n", "t", "e", "n", "t", "'" >>
M_content_must_be_array ==
    << "I", "n", "v", "a", "l", "i", "d", " ", "A", "D", "F", ":", " ", "c", "o", "n",
       "t", "e", "n", "t", " ", "m", "u", "s", "t", " ", "b", "e", " ", "a", "r", "r",
       "a", "y" >>
M_must_be_string_or_adf ==
    << " ", "m", "u", "s", "t", " ", "b", "e", " ", "s", "t", "r", "i", "n", "g", " ",
       "o", "r", " ", "A", "D", "F", " ", "o", "b", "j", "e", "c", "t", ",", " ", "g",
       "o", "t", " " >>
S_javascript == <<"j", "a", "v", "a", "s", "c", "r", "i", "p", "t", ":">>
S_vbscript == <<"v", "b", "s", "c", "r", "i", "p", "t", ":">>
S_data == <<"d", "a", "t", "a", ":">>
S_u_open == <<"<", "u", ">">>
S_u_close == <<"<", "/", "u", ">">>
S_sub_open == <<"<", "s", "u", "b", ">">>
S_sub_close == <<"<", "/", "s", "u", "b", ">">>
S_sup_open == <<"<", "s", "u", "p", ">">>
S_sup_close == <<"<", "/", "s", "u", "p", ">">>
S_span_open ==
    << "<", "s", "p", "a", "n", " ", "s", "t", "y", "l", "e", "=", "\"", "c", "o", "l",
       "o", "r", ":" >>
S_span_close == <<"<", "/", "s", "p", "a", "n", ">">>
S_mark_open ==
    << "<", "m", "a", "r", "k", " ", "s", "t", "y", "l", "e", "=", "\"", "b", "a", "c",
       "k", "g", "r", "o", "u", "n", "d", ":" >>
S_mark_close == <<"<", "/", "m", "a", "r", "k", ">">>
S_tag_end == <<"\"", ">">>
UpperCase ==
    << "A", "B", "C", "D", "E", "F", "G", "H", "I", "J", "K", "L", "M", "N", "O", "P",
       "Q", "R", "S", "T", "U", "V", "W", "X", "Y", "Z" >>
LowerCase ==
    << "a", "b", "c", "d", "e", "f", "g", "h", "i", "j", "k", "l", "m", "n", "o", "p",
       "q", "r", "s", "t", "u", "v", "w", "x", "y", "z" >>

----------------------------------------------------------------------------
(* serde_json::Value *)
None == [k |-> "none"]
Some(x) == [k |-> "some", v |-> x]

Null == [k |-> "null"]
JBool(b) == [k |-> "bool", b |-> b]
JInt(n) == [k |-> "int", n |-> n]
JBigU64(d) == [k |-> "u64", d |-> d]
JFloat(w, f) == [k |-> "float", w |-> w, f |-> f]
JStr(s) == [k |-> "str", s |-> s]
JArr(a) == [k |-> "arr", a |-> a]
JObj(o) == [k |-> "obj", o |-> o]

Get(v, key) == IF v.k = "obj" /\ key \in DOMAIN v.o THEN v.o[key] ELSE None
as_object(v) == IF v.k = "obj" THEN v ELSE None
as_array(v) == IF v.k = "arr" THEN v ELSE None
as_str(v) == IF v.k = "str" THEN v ELSE None
(* a version read through the float: 1.0 counts as the integer 1 *)
as_i64_through_float(v) ==
    IF v.k = "int" THEN Some(v.n)
    ELSE IF v.k = "float" /\ v.f = 0 THEN Some(v.w)
    ELSE None

as_i64(v) == IF v.k = "int" THEN Some(v.n) ELSE None
is_array(v) == v.k = "arr"

(* node[key] = val on an object node *)
SetKey(node, key, val) ==
    JObj([x \in DOMAIN node.o \cup {key} |-> IF x = key THEN val ELSE node.o[x]])

Last(s) == s[Len(s)]
Front(s) == SubSeq(s, 1, Len(s) - 1)

----------------------------------------------------------------------------
(* Display and Debug formatting *)
Digits == <<"0", "1", "2", "3", "4", "5", "6", "7", "8", "9">>

RECURSIVE NatToChars(_)
NatToChars(n) ==
    IF n < 10 THEN <<Digits[n + 1]>>
    ELSE NatToChars(n \div 10) \o <<Digits[(n % 10) + 1]>>

IntToChars(n) == IF n < 0 THEN <<"-">> \o NatToChars(-n) ELSE NatToChars(n)

(* x contains the substring p *)
Contains(x, p) ==
    \E i \in 0..(Len(x) - Len(p)) : SubSeq(x, i + 1, i + Len(p)) = p

StartsWith(x, p) == Len(p) <= Len(x) /\ SubSeq(x, 1, Len(p)) = p

(* slice::join: the parts with sep between them, halving the slice *)
RECURSIVE JoinWith(_, _)
JoinWith(parts, sep) ==
    IF Len(parts) = 0 THEN <<>>
    ELSE IF Len(parts) = 1 THEN parts[1]
    ELSE LET half == Len(parts) \div 2 IN
         JoinWith(SubSeq(parts, 1, half), sep) \o sep
         \o JoinWith(SubSeq(parts, half + 1, Len(parts)), sep)

(* {:?} of a Value; the i64::MAX + d of a u64 is written symbolically *)
RECURSIVE DebugValue(_)
DebugValue(v) ==
    CASE v.k = "null" -> <<"N", "u", "l", "l">>
      [] v.k = "bool" ->
            <<"B", "o", "o", "l", "(">>
            \o (IF v.b THEN <<"t", "r", "u", "e">> ELSE <<"f", "a", "l", "s", "e">>)
            \o <<")">>
      [] v.k = "int" ->
            <<"N", "u", "m", "b", "e", "r", "(">> \o IntToChars(v.n) \o <<")">>
      [] v.k = "u64" ->
            <<"N", "u", "m", "b", "e", "r", "(", "i", "6", "4", "M", "A", "X", "+">>
            \o IntToChars(v.d) \o <<")">>
      [] v.k = "float" ->
            <<"N", "u", "m", "b", "e", "r", "(">> \o IntToChars(v.w) \o <<".">>
            \o IntToChars(v.f) \o <<")">>
      [] v.k = "str" ->
            <<"S", "t", "r", "i", "n", "g", "(", "\"">> \o v.s \o <<"\"", ")">>
      [] v.k = "arr" ->
            <<"A", "r", "r", "a", "y", " ", "[">>
            \o JoinWith([i \in 1..Len(v.a) |-> DebugValue(v.a[i])], <<",", " ">>)
            \o <<"]">>
      [] OTHER -> <<"O", "b", "j", "e", "c", "t", " ", "{", ".", ".", "}">>

----------------------------------------------------------------------------
(* Results *)
OkUnit == [ok |-> TRUE]
Ok(v) == [ok |-> TRUE, value |-> v]
Err(msg) == [ok |-> FALSE, msg |-> msg]

(* a check of "type" that reports a present non-string value as a wrong type *)
check_type_present(obj) ==
    LET type == Get(obj, "type") IN
    IF type = None THEN Err(M_missing_type)
    ELSE IF type # JStr(S_doc)
    THEN Err(M_type_must_be_doc \o (IF type.k = "str" THEN type.s ELSE <<>>) \o <<"'">>)
    ELSE OkUnit

(* validate_adf: the check of the required field "type" *)
check_type(obj) ==
    LET doc_type == as_str(Get(obj, "type")) IN
    IF doc_type = None THEN Err(M_missing_type)
    ELSE IF doc_type.s # S_doc
    THEN Err(M_type_must_be_doc \o doc_type.s \o <<"'">>)
    ELSE OkUnit

(* validate_adf: the check of the required field "version" *)
check_version(obj) ==
    LET version == as_i64(Get(obj, "version")) IN
    IF version = None THEN Err(M_missing_version)
    ELSE IF version.v # 1
    THEN Err(M_version_must_be_1 \o IntToChars(version.v))
    ELSE OkUnit

(* a check of "content" that also wants every node to be an object *)
check_content_nodes(obj) ==
    LET content == Get(obj, "content") IN
    IF content = None THEN Err(M_missing_content)
    ELSE IF ~is_array(content) THEN Err(M_content_must_be_array)
    ELSE IF \E i \in 1..Len(content.a) : content.a[i].k # "obj"
    THEN Err(M_content_must_be_array)
    ELSE OkUnit

(* a check of "content" that only wants the key *)
check_content_present(obj) ==
    IF Get(obj, "content") = None THEN Err(M_missing_content) ELSE OkUnit

(* validate_adf: the check of the required field "content" *)
check_content(obj) ==
    LET content == Get(obj, "content") IN
    IF content = None THEN Err(M_missing_content)
    ELSE IF ~is_array(content) THEN Err(M_content_must_be_array)
    ELSE OkUnit

(* jira/adf.rs: validate_adf; each ? returns the first error *)
validate_adf(v) ==
    IF as_object(v) = None THEN Err(M_not_object)
    ELSE IF ~check_type(v).ok THEN check_type(v)
    ELSE IF ~check_version(v).ok THEN check_version(v)
    ELSE check_content(v)

----------------------------------------------------------------------------
(* pulldown_cmark events.  Start(tag) and End(tag_end) carry a tag record  *)
(* [t |-> name, ...]; Text and Code carry their characters.                *)
Start(tag) == [e |-> "Start", tag |-> tag]
End(tag_end) == [e |-> "End", tag |-> tag_end]
Text(s) == [e |-> "Text", text |-> s]
Code(s) == [e |-> "Code", text |-> s]
SoftBreak == [e |-> "SoftBreak"]
HardBreak == [e |-> "HardBreak"]
Rule == [e |-> "Rule"]
TaskListMarker(checked) == [e |-> "TaskListMarker", checked |-> checked]
Html(s) == [e |-> "Html", text |-> s]

Tag(t) == [t |-> t]
TagHeading(level) == [t |-> "Heading", level |-> level]
TagCodeBlock(kind, lang) == [t |-> "CodeBlock", kind |-> kind, lang |-> lang]
TagList(first_item) == [t |-> "List", first_item |-> first_item]
TagLink(dest_url) == [t |-> "Link", dest_url |-> dest_url]
TagImage(dest_url) == [t |-> "Image", dest_url |-> dest_url]

Node(type) == JObj([type |-> JStr(type)])
Mark(type) == JObj([type |-> JStr(type)])
TextNode(s) == JObj([type |-> JStr(S_text), text |-> JStr(s)])

(* jira/adf.rs: is_block_node *)
BlockNodeTypes ==
    {S_paragraph, S_heading, S_bulletList, S_orderedList, S_codeBlock,
     S_blockquote, S_rule, S_table}

is_block_node(node) ==
    LET t == as_str(Get(node, "type")) IN
    t # None /\ t.s \in BlockNodeTypes

ParagraphOf(inline_buf) ==
    JObj([type |-> JStr(S_paragraph), content |-> JArr(inline_buf)])

(* jira/adf.rs: wrap_inline_in_paragraphs, the loop with its two buffers *)
RECURSIVE wrap_loop(_, _, _)
wrap_loop(children, result, inline_buf) ==
    IF children = <<>>
    THEN IF inline_buf # <<>>
         THEN Append(result, ParagraphOf(inline_buf))
         ELSE result
    ELSE
      LET child == Head(children) IN
      IF is_block_node(child)
      THEN wrap_loop(Tail(children),
                     Append(IF inline_buf # <<>>
                            THEN Append(result, ParagraphOf(inline_buf))
                            ELSE result, child),
                     <<>>)
      ELSE wrap_loop(Tail(children), result, Append(inline_buf, child))

(* a wrapper that puts every inline child in a paragraph of its own *)
wrap_each_inline(children) ==
    [i \in 1..Len(children) |->
        IF is_block_node(children[i]) THEN children[i]
        ELSE ParagraphOf(<<children[i]>>)]

wrap_inline_in_paragraphs(children) == wrap_loop(children, <<>>, <<>>)

(* The builder's state: stack of frames (node, children), top-level       *)
(* content, active marks, table-head flag.                                 *)
Builder(st, dc, mk, ith) ==
    [stack |-> st, doc_content |-> dc, marks |-> mk, in_table_head |-> ith]

NewBuilder == Builder(<<>>, <<>>, <<>>, FALSE)

Frame(node) == [node |-> node, children |-> <<>>]

push_frame(b, node) == [b EXCEPT !.stack = Append(@, Frame(node))]

(* parent.1.push(node) on the top frame *)
push_child(b, node) ==
    [b EXCEPT !.stack[Len(b.stack)].children = Append(@, node)]

push_mark(b, mark) == [b EXCEPT !.marks = Append(@, mark)]

LinkMark(dest_url) ==
    JObj([type |-> JStr(S_link), attrs |-> JObj([href |-> JStr(dest_url)])])

(* Event::Start(tag) *)
on_Start(b, tag) ==
    CASE tag.t = "Paragraph" -> push_frame(b, Node(S_paragraph))
      [] tag.t = "Heading" ->
            push_frame(b, JObj([type |-> JStr(S_heading),
                                attrs |-> JObj([level |-> JInt(tag.level)])]))
      [] tag.t = "BlockQuote" -> push_frame(b, Node(S_blockquote))
      [] tag.t = "CodeBlock" ->
            IF tag.kind = "Fenced" /\ tag.lang # <<>>
            THEN push_frame(b, JObj([type |-> JStr(S_codeBlock),
                                     attrs |-> JObj([language |-> JStr(tag.lang)])]))
            ELSE push_frame(b, Node(S_codeBlock))
      [] tag.t = "List" ->
            IF tag.first_item # None
            THEN push_frame(b, Node(S_orderedList))
            ELSE push_frame(b, Node(S_bulletList))
      [] tag.t = "Item" -> push_frame(b, Node(S_listItem))
      [] tag.t = "Table" -> push_frame(b, Node(S_table))
      [] tag.t = "TableHead" ->
            push_frame([b EXCEPT !.in_table_head = TRUE], Node(S_tableRow))
      [] tag.t = "TableRow" -> push_frame(b, Node(S_tableRow))
      [] tag.t = "TableCell" ->
            push_frame(b, Node(IF b.in_table_head THEN S_tableHeader ELSE S_tableCell))
      [] tag.t = "Emphasis" -> push_mark(b, Mark(S_em))
      [] tag.t = "Strong" -> push_mark(b, Mark(S_strong))
      [] tag.t = "Strikethrough" -> push_mark(b, Mark(S_strike))
      [] tag.t = "Link" -> push_mark(b, LinkMark(tag.dest_url))
      [] tag.t = "Image" -> push_mark(b, LinkMark(tag.dest_url))
      [] OTHER -> b

BlockTagEnds ==
    {"Paragraph", "Heading", "BlockQuote", "CodeBlock", "List", "Item", "Table",
     "TableHead", "TableRow", "TableCell"}

(* a position search from the front: the first mark of the type *)
position_first(mk, mark_type) ==
    LET hits == {i \in 1..Len(mk) : as_str(Get(mk[i], "type")) = JStr(mark_type)} IN
    IF hits = {} THEN 0 ELSE CHOOSE i \in hits : \A j \in hits : i <= j

(* marks.iter().rposition(type == mark_type): 0 when there is none *)
rposition(mk, mark_type) ==
    LET hits == {i \in 1..Len(mk) : as_str(Get(mk[i], "type")) = JStr(mark_type)} IN
    IF hits = {} THEN 0 ELSE CHOOSE i \in hits : \A j \in hits : j <= i

remove_at(s, pos) == SubSeq(s, 1, pos - 1) \o SubSeq(s, pos + 1, Len(s))

pop_mark(b, mark_type) ==
    LET pos == rposition(b.marks, mark_type) IN
    IF pos = 0 THEN b ELSE [b EXCEPT !.marks = remove_at(@, pos)]

(* a block arm of Event::End that writes the content key whatever the     *)
(* children                                                                *)
close_frame_content_always(b, tag_end) ==
    IF b.stack = <<>> THEN b
    ELSE
      LET top == Last(b.stack)
          rest == Front(b.stack)
          needs_block_wrap == tag_end.t \in {"Item", "TableCell"}
          final_children ==
              IF needs_block_wrap /\ top.children # <<>>
              THEN wrap_inline_in_paragraphs(top.children)
              ELSE top.children
          node == SetKey(top.node, "content", JArr(final_children))
      IN IF rest # <<>>
         THEN push_child([b EXCEPT !.stack = rest], node)
         ELSE [b EXCEPT !.stack = rest, !.doc_content = Append(@, node)]

(* the block arm of Event::End: pop the top frame, attach its children,    *)
(* hand the node to the parent frame or to the document                    *)
close_frame(b, tag_end) ==
    IF b.stack = <<>> THEN b
    ELSE
      LET top == Last(b.stack)
          rest == Front(b.stack)
          needs_block_wrap == tag_end.t \in {"Item", "TableCell"}
          final_children ==
              IF needs_block_wrap /\ top.children # <<>>
              THEN wrap_inline_in_paragraphs(top.children)
              ELSE top.children
          node ==
              IF final_children # <<>>
              THEN SetKey(top.node, "content", JArr(final_children))
              ELSE top.node
      IN IF rest # <<>>
         THEN push_child([b EXCEPT !.stack = rest], node)
         ELSE [b EXCEPT !.stack = rest, !.doc_content = Append(@, node)]

(* an end handler that leaves the table-head flag as it is *)
on_End_keep_flag(b, tag_end) ==
    IF tag_end.t \in BlockTagEnds
    THEN close_frame(b, tag_end)
    ELSE IF tag_end.t = "Emphasis" THEN pop_mark(b, S_em)
    ELSE IF tag_end.t = "Strong" THEN pop_mark(b, S_strong)
    ELSE IF tag_end.t = "Strikethrough" THEN pop_mark(b, S_strike)
    ELSE IF tag_end.t \in {"Link", "Image"} THEN pop_mark(b, S_link)
    ELSE b

(* Event::End(tag_end) *)
on_End(b, tag_end) ==
    IF tag_end.t \in BlockTagEnds
    THEN close_frame(IF tag_end.t = "TableHead"
                     THEN [b EXCEPT !.in_table_head = FALSE]
                     ELSE b, tag_end)
    ELSE IF tag_end.t = "Emphasis" THEN pop_mark(b, S_em)
    ELSE IF tag_end.t = "Strong" THEN pop_mark(b, S_strong)
    ELSE IF tag_end.t = "Strikethrough" THEN pop_mark(b, S_strike)
    ELSE IF tag_end.t \in {"Link", "Image"} THEN pop_mark(b, S_link)
    ELSE b

(* push to the top frame, or wrap in a top-level paragraph *)
push_inline_or_paragraph(b, node) ==
    IF b.stack # <<>> THEN push_child(b, node)
    ELSE [b EXCEPT !.doc_content = Append(@, ParagraphOf(<<node>>))]

(* a text handler that writes the marks key whatever the marks *)
on_Text_marks_always(b, text) ==
    push_inline_or_paragraph(b, SetKey(TextNode(text), "marks", JArr(b.marks)))

(* Event::Text(text) *)
on_Text(b, text) ==
    LET plain == TextNode(text)
        node == IF b.marks # <<>> THEN SetKey(plain, "marks", JArr(b.marks))
                ELSE plain
    IN push_inline_or_paragraph(b, node)

(* Event::Code(code) *)
on_Code(b, code) ==
    LET code_marks == Append(b.marks, Mark(S_code))
        node == JObj([type |-> JStr(S_text), text |-> JStr(code),
                      marks |-> JArr(code_marks)])
    IN push_inline_or_paragraph(b, node)

(* a soft break that opens a paragraph when no frame is open *)
on_SoftBreak_wrapped(b) == push_inline_or_paragraph(b, TextNode(<<" ">>))

(* Event::SoftBreak *)
on_SoftBreak(b) ==
    IF b.stack # <<>> THEN push_child(b, TextNode(<<" ">>)) ELSE b

(* Event::HardBreak *)
on_HardBreak(b) ==
    IF b.stack # <<>> THEN push_child(b, Node(S_hardBreak)) ELSE b

(* Event::Rule *)
on_Rule(b) ==
    IF b.stack # <<>> THEN push_child(b, Node(S_rule))
    ELSE [b EXCEPT !.doc_content = Append(@, Node(S_rule))]

(* Event::TaskListMarker(checked) *)
on_TaskListMarker(b, checked) ==
    LET marker == IF checked THEN <<"[", "x", "]", " ">> ELSE <<"[", " ", "]", " ">> IN
    IF b.stack # <<>> THEN push_child(b, TextNode(marker)) ELSE b

(* the match on the event *)
handle_event(b, ev) ==
    CASE ev.e = "Start" -> on_Start(b, ev.tag)
      [] ev.e = "End" -> on_End(b, ev.tag)
      [] ev.e = "Text" -> on_Text(b, ev.text)
      [] ev.e = "Code" -> on_Code(b, ev.text)
      [] ev.e = "SoftBreak" -> on_SoftBreak(b)
      [] ev.e = "HardBreak" -> on_HardBreak(b)
      [] ev.e = "Rule" -> on_Rule(b)
      [] ev.e = "TaskListMarker" -> on_TaskListMarker(b, ev.checked)
      [] OTHER -> b

RECURSIVE run_events(_, _)
run_events(b, evs) ==
    IF evs = <<>> THEN b ELSE run_events(handle_event(b, Head(evs)), Tail(evs))

(* a document that leaves out an empty content, as the nodes do *)
build_doc_skip_empty(content) ==
    IF content = <<>>
    THEN JObj([type |-> JStr(S_doc), version |-> JInt(1)])
    ELSE JObj([type |-> JStr(S_doc), version |-> JInt(1), content |-> JArr(content)])

(* the json!({...}) that ends markdown_to_adf *)
build_doc(content) ==
    JObj([type |-> JStr(S_doc), version |-> JInt(1), content |-> JArr(content)])

(* markdown_to_adf from the parser's event stream on *)
markdown_events_to_adf(evs) == build_doc(run_events(NewBuilder, evs).doc_content)

Whitespace == {" ", "\t", "\n", "\r"}
IsBlank(s) == \A i \in 1..Len(s) : s[i] \in Whitespace

(* Parser::new_ext(text, opts) on a one-line text without Markdown syntax  *)
(* and without leading or trailing whitespace, or on a blank text          *)
Parser(text) ==
    IF IsBlank(text) THEN <<>>
    ELSE <<Start(Tag("Paragraph")), Text(text), End(Tag("Paragraph"))>>

markdown_to_adf(text) == markdown_events_to_adf(Parser(text))

(* jira/adf.rs: text_to_adf *)
text_to_adf(text) == markdown_to_adf(text)

(* a dispatcher that hands back an empty paragraph for null *)
process_adf_input_null_paragraph(v, field) ==
    CASE v.k = "str" -> Ok(text_to_adf(v.s))
      [] v.k = "obj" ->
            LET checked == validate_adf(v) IN
            IF checked.ok THEN Ok(v) ELSE checked
      [] v.k = "null" -> Ok(build_doc(<<Node(S_paragraph)>>))
      [] OTHER -> Err(field \o M_must_be_string_or_adf \o DebugValue(v))

(* jira/adf.rs: process_adf_input *)
process_adf_input(v, field) ==
    CASE v.k = "str" -> Ok(text_to_adf(v.s))
      [] v.k = "obj" ->
            LET checked == validate_adf(v) IN
            IF checked.ok THEN Ok(v) ELSE checked
      [] v.k = "null" -> Ok(text_to_adf(<<>>))
      [] OTHER -> Err(field \o M_must_be_string_or_adf \o DebugValue(v))

process_description_input(v) == process_adf_input(v, S_description)
process_comment_input(v) == process_adf_input(v, S_comment)

----------------------------------------------------------------------------
(* markdown/adf/marks.rs *)

(* str::to_lowercase on ASCII letters *)
to_lowercase(x) ==
    [i \in 1..Len(x) |->
        IF \E j \in 1..Len(UpperCase) : UpperCase[j] = x[i]
        THEN LowerCase[CHOOSE j \in 1..Len(UpperCase) : UpperCase[j] = x[i]]
        ELSE x[i]]

(* attrs.and_then(|a| a.get(key)).and_then(|v| v.as_str()).unwrap_or(default) *)
attr_str_or(attrs, key, default) ==
    LET found == as_str(Get(attrs, key)) IN
    IF found = None THEN default ELSE found.s

(* format_link comparing the scheme without lowercasing the href *)
format_link_case_sensitive(text, attrs) ==
    LET href == attr_str_or(attrs, "href", <<>>)
        title == as_str(Get(attrs, "title"))
    IN IF href = <<>> THEN text
       ELSE IF \/ StartsWith(href, S_javascript)
               \/ StartsWith(href, S_vbscript)
               \/ StartsWith(href, S_data)
       THEN text
       ELSE IF title # None
       THEN <<"[">> \o text \o <<"]", "(">> \o href \o <<" ", "\"">> \o title.s
            \o <<"\"", ")">>
       ELSE <<"[">> \o text \o <<"]", "(">> \o href \o <<")">>

(* marks.rs: format_link *)
format_link(text, attrs) ==
    LET href == attr_str_or(attrs, "href", <<>>)
        href_lower == to_lowercase(href)
        title == as_str(Get(attrs, "title"))
    IN IF href = <<>> THEN text
       ELSE IF \/ StartsWith(href_lower, S_javascript)
               \/ StartsWith(href_lower, S_vbscript)
               \/ StartsWith(href_lower, S_data)
       THEN text
       ELSE IF title # None
       THEN <<"[">> \o text \o <<"]", "(">> \o href \o <<" ", "\"">> \o title.s
            \o <<"\"", ")">>
       ELSE <<"[">> \o text \o <<"]", "(">> \o href \o <<")">>

(* marks.rs: format_subsup *)
format_subsup(text, attrs) ==
    IF attr_str_or(attrs, "type", S_sub) = S_sup
    THEN S_sup_open \o text \o S_sup_close
    ELSE S_sub_open \o text \o S_sub_close

(* marks.rs: format_text_color *)
format_text_color(text, attrs) ==
    LET color == attr_str_or(attrs, "color", <<>>) IN
    IF color = <<>> THEN text
    ELSE S_span_open \o color \o S_tag_end \o text \o S_span_close

(* marks.rs: format_background_color *)
format_background_color(text, attrs) ==
    LET color == attr_str_or(attrs, "color", <<>>) IN
    IF color = <<>> THEN text
    ELSE S_mark_open \o color \o S_tag_end \o text \o S_mark_close

(* apply_marks: the body of the loop, one mark around the result so far *)
apply_mark(result, mark) ==
    LET mark_type == attr_str_or(mark, "type", <<>>)
        attrs == Get(mark, "attrs")
    IN CASE mark_type = S_strong -> <<"*", "*">> \o result \o <<"*", "*">>
         [] mark_type = S_em -> <<"*">> \o result \o <<"*">>
         [] mark_type = S_code -> <<Backtick>> \o result \o <<Backtick>>
         [] mark_type = S_strike -> <<"~", "~">> \o result \o <<"~", "~">>
         [] mark_type = S_underline -> S_u_open \o result \o S_u_close
         [] mark_type = S_link -> format_link(result, attrs)
         [] mark_type = S_subsup -> format_subsup(result, attrs)
         [] mark_type = S_textColor -> format_text_color(result, attrs)
         [] mark_type = S_backgroundColor -> format_background_color(result, attrs)
         [] OTHER -> result

(* apply_marks: for mark in marks, from the first listed on *)
RECURSIVE apply_marks_loop(_, _)
apply_marks_loop(result, todo) ==
    IF todo = <<>> THEN result
    ELSE apply_marks_loop(apply_mark(result, Head(todo)), Tail(todo))

Reverse(x) == [i \in 1..Len(x) |-> x[Len(x) + 1 - i]]

(* the loop run from the last listed mark to the first *)
apply_marks_reversed(text, mark_vec) ==
    IF mark_vec = None THEN text ELSE apply_marks_loop(text, Reverse(mark_vec.v))

(* marks.rs: apply_marks; mark_vec is None or Some(the marks) *)
apply_marks(text, mark_vec) ==
    IF mark_vec = None THEN text ELSE apply_marks_loop(text, mark_vec.v)

-----------------------------------------------------------------------------
(* markdown/adf: the renderer's string literals *)
S_user == <<"u", "s", "e", "r">>
S_status == <<"s", "t", "a", "t", "u", "s">>
S_neutral == <<"n", "e", "u", "t", "r", "a", "l">>
S_green == <<"g", "r", "e", "e", "n">>
S_yellow == <<"y", "e", "l", "l", "o", "w">>
S_red == <<"r", "e", "d">>
S_blue == <<"b", "l", "u", "e">>
S_purple == <<"p", "u", "r", "p", "l", "e">>
S_ind_ok == <<"[", "O", "K", "]">>
S_ind_warn == <<"[", "W", "A", "R", "N", "]">>
S_ind_err == <<"[", "E", "R", "R", "]">>
S_ind_info == <<"[", "I", "N", "F", "O", "]">>
S_ind_note == <<"[", "N", "O", "T", "E", "]">>
S_ind_status == <<"[", "S", "T", "A", "T", "U", "S", "]">>
S_media == <<"m", "e", "d", "i", "a">>
S_media_open == <<"[", "M", "e", "d", "i", "a", ":", " ">>
S_media_bare == <<"[", "M", "e", "d", "i", "a", "]">>
S_placeholder == <<"p", "l", "a", "c", "e", "h", "o", "l", "d", "e", "r">>
S_mention == <<"m", "e", "n", "t", "i", "o", "n">>
S_emoji == <<"e", "m", "o", "j", "i">>
S_inlineCard == <<"i", "n", "l", "i", "n", "e", "C", "a", "r", "d">>
S_date == <<"d", "a", "t", "e">>
S_mediaInline == <<"m", "e", "d", "i", "a", "I", "n", "l", "i", "n", "e">>
M_pre_epoch ==
    << "1", "9", "7", "0", "-", "0", "1", "-", "0", "1", " ", "(", "p", "r", "e", "-",
       "e", "p", "o", "c", "h", ":", " " >>
M_invalid_timestamp ==
    << "(", "i", "n", "v", "a", "l", "i", "d", " ", "t", "i", "m", "e", "s", "t", "a",
       "m", "p", ":", " " >>
M_truncated ==
    << "[", "C", "o", "n", "t", "e", "n", "t", " ", "t", "r", "u", "n", "c", "a", "t",
       "e", "d", ":", " ", "m", "a", "x", " ", "d", "e", "p", "t", "h", " ", "e", "x",
       "c", "e", "e", "d", "e", "d", "]" >>
S_Unsupported == <<"U", "n", "s", "u", "p", "p", "o", "r", "t", "e", "d">>
M_unsupported_open ==
    << "<", "!", "-", "-", " ", "U", "n", "s", "u", "p", "p", "o", "r", "t", "e", "d",
       ":", " " >>
M_unsupported_close == <<" ", "-", "-", ">", "\n">>
S_rule_line == <<"-", "-", "-">>
S_quote_prefix == <<">", " ">>
S_panel_open == <<">", " ", "*", "*">>
S_panel_close == <<"*", "*", ":", " ">>
S_info == <<"i", "n", "f", "o">>
S_row_open == <<"|", " ">>
S_row_close == <<" ", "|">>
S_cell_sep == <<" ", "|", " ">>
S_escaped_pipe == <<"\\", "|">>
S_Details == <<"D", "e", "t", "a", "i", "l", "s">>
S_bold == <<"*", "*">>
S_TODO == <<"T", "O", "D", "O">>
S_DONE == <<"D", "O", "N", "E">>
S_DECIDED == <<"D", "E", "C", "I", "D", "E", "D">>
S_checked == <<"[", "x", "]">>
S_unchecked == <<"[", " ", "]">>
S_column_sep == <<"\n", "\n", "-", "-", "-", "\n", "\n">>
M_embedded ==
    << "[", "E", "m", "b", "e", "d", "d", "e", "d", " ", "c", "o", "n", "t", "e", "n",
       "t", "]" >>
S_extension_open == <<"[", "E", "x", "t", "e", "n", "s", "i", "o", "n", ":", " ">>
S_extension == <<"e", "x", "t", "e", "n", "s", "i", "o", "n">>
S_panel == <<"p", "a", "n", "e", "l">>
S_mediaSingle == <<"m", "e", "d", "i", "a", "S", "i", "n", "g", "l", "e">>
S_mediaGroup == <<"m", "e", "d", "i", "a", "G", "r", "o", "u", "p">>
S_expand == <<"e", "x", "p", "a", "n", "d">>
S_nestedExpand == <<"n", "e", "s", "t", "e", "d", "E", "x", "p", "a", "n", "d">>
S_taskList == <<"t", "a", "s", "k", "L", "i", "s", "t">>
S_taskItem == <<"t", "a", "s", "k", "I", "t", "e", "m">>
S_decisionList == <<"d", "e", "c", "i", "s", "i", "o", "n", "L", "i", "s", "t">>
S_decisionItem == <<"d", "e", "c", "i", "s", "i", "o", "n", "I", "t", "e", "m">>
S_layoutSection == <<"l", "a", "y", "o", "u", "t", "S", "e", "c", "t", "i", "o", "n">>
S_layoutColumn == <<"l", "a", "y", "o", "u", "t", "C", "o", "l", "u", "m", "n">>
S_embedCard == <<"e", "m", "b", "e", "d", "C", "a", "r", "d">>
S_bodiedExtension ==
    << "b", "o", "d", "i", "e", "d", "E", "x", "t", "e", "n", "s", "i", "o", "n" >>
S_multiBodiedExtension ==
    << "m", "u", "l", "t", "i", "B", "o", "d", "i", "e", "d", "E", "x", "t", "e", "n",
       "s", "i", "o", "n" >>
S_extensionFrame ==
    << "e", "x", "t", "e", "n", "s", "i", "o", "n", "F", "r", "a", "m", "e" >>

-----------------------------------------------------------------------------
(* str helpers of the renderer *)

(* line.trim().is_empty() *)
trim_is_empty(x) == IsBlank(x)

(* str::repeat *)
RECURSIVE repeat(_, _)
repeat(x, n) == IF n = 0 THEN <<>> ELSE x \o repeat(x, n - 1)

(* str::to_uppercase on ASCII letters *)
to_uppercase(x) ==
    [i \in 1..Len(x) |->
        IF \E j \in 1..Len(LowerCase) : LowerCase[j] = x[i]
        THEN UpperCase[CHOOSE j \in 1..Len(LowerCase) : LowerCase[j] = x[i]]
        ELSE x[i]]

(* str::trim_start_matches(c) *)
trim_start_matches(x, c) ==
    LET other == {i \in 1..Len(x) : x[i] # c} IN
    IF other = {} THEN <<>>
    ELSE SubSeq(x, CHOOSE i \in other : \A j \in other : i <= j, Len(x))

(* str::replace(from, to) for a one-character from *)
replace(x, from, to) ==
    JoinWith([i \in 1..Len(x) |-> IF x[i] = from THEN to ELSE <<x[i]>>], <<>>)

(* str::split('\n'): the pieces between the line feeds *)
split_lf(x) ==
    LET feeds == {i \in 1..Len(x) : x[i] = "\n"}
        \* the position of the k-th line feed; 0 before the text, Len + 1 after
        feed(k) == IF k = 0 THEN 0
                   ELSE IF k > Cardinality(feeds) THEN Len(x) + 1
                   ELSE CHOOSE i \in feeds : Cardinality({j \in feeds : j < i}) = k - 1
    IN [k \in 1..(Cardinality(feeds) + 1) |-> SubSeq(x, feed(k - 1) + 1, feed(k) - 1)]

(* str::lines: lines end at "\n" or "\r\n"; no empty line after the last  *)
(* line feed; a "\r" that ends the text stays                             *)
lines(x) ==
    LET pieces == split_lf(x)
        n == Len(pieces)
        kept == IF pieces[n] = <<>> THEN n - 1 ELSE n
        strip_cr(i) ==
            IF i < n /\ pieces[i] # <<>> /\ Last(pieces[i]) = "\r"
            THEN Front(pieces[i])
            ELSE pieces[i]
    IN [i \in 1..kept |-> strip_cr(i)]

(* Value::as_u64; an integer above i64::MAX is returned as U64Large *)
U64Large == 1000000
as_u64(v) ==
    IF v.k = "int" /\ v.n >= 0 THEN Some(v.n)
    ELSE IF v.k = "u64" THEN Some(U64Large)
    ELSE None

Min(a, b) == IF a < b THEN a ELSE b

(* attrs.and_then(|a| a.get(key)).and_then(|v| v.as_str()) *)
attr_str(attrs, key) == as_str(Get(attrs, key))

-----------------------------------------------------------------------------
(* markdown/adf/inline.rs *)

convert_text(node) ==
    LET text == attr_str_or(node, "text", <<>>)
        mark_vec == as_array(Get(node, "marks"))
    IN apply_marks(text, IF mark_vec = None THEN None ELSE Some(mark_vec.a))

convert_mention(node) ==
    LET attrs == Get(node, "attrs")
        text == IF attr_str(attrs, "text") # None THEN attr_str(attrs, "text").s
                ELSE attr_str_or(attrs, "id", S_user)
    IN <<"@">> \o trim_start_matches(text, "@")

convert_emoji(node) ==
    LET shortname == attr_str(Get(node, "attrs"), "shortName")
        text == attr_str(Get(node, "attrs"), "text")
    IN IF text # None THEN text.s
       ELSE IF shortname # None THEN shortname.s
       ELSE <<>>

convert_inline_card(node) ==
    LET url == attr_str_or(Get(node, "attrs"), "url", <<>>) IN
    IF url = <<>> THEN <<>>
    ELSE <<"[">> \o url \o <<"]", "(">> \o url \o <<")">>

convert_status(node) ==
    LET attrs == Get(node, "attrs")
        text == attr_str_or(attrs, "text", S_status)
        color == attr_str_or(attrs, "color", S_neutral)
        indicator ==
            CASE color = S_green -> S_ind_ok
              [] color = S_yellow -> S_ind_warn
              [] color = S_red -> S_ind_err
              [] color = S_blue -> S_ind_info
              [] color = S_purple -> S_ind_note
              [] OTHER -> S_ind_status
    IN indicator \o <<" ">> \o to_uppercase(text)

convert_media_inline(node) ==
    LET attrs == Get(node, "attrs")
        alt == IF attr_str(attrs, "alt") # None THEN attr_str(attrs, "alt").s
               ELSE attr_str_or(attrs, "id", S_media)
    IN S_media_open \o alt \o <<"]">>

convert_placeholder(node) ==
    <<"{">> \o attr_str_or(Get(node, "attrs"), "text", S_placeholder) \o <<"}">>

(* decimal digit strings: i64 values wider than the checker's integers are *)
(* kept as a sign and the digits of the magnitude                          *)
IsDigit(c) == \E i \in 1..Len(Digits) : Digits[i] = c
DigitVal(c) == (CHOOSE i \in 1..Len(Digits) : Digits[i] = c) - 1

RECURSIVE strip_zeros(_)
strip_zeros(d) ==
    IF Len(d) > 1 /\ Head(d) = "0" THEN strip_zeros(Tail(d)) ELSE d

(* a < b for digit strings without leading zeros *)
DigitsLess(a, b) ==
    \/ Len(a) < Len(b)
    \/ /\ Len(a) = Len(b)
       /\ \E i \in 1..Len(a) :
            /\ DigitVal(a[i]) < DigitVal(b[i])
            /\ \A j \in 1..(i - 1) : a[j] = b[j]

I64MaxDigits ==
    <<"9", "2", "2", "3", "3", "7", "2", "0", "3", "6", "8", "5", "4", "7", "7", "5",
      "8", "0", "7">>
I64MinDigits ==
    <<"9", "2", "2", "3", "3", "7", "2", "0", "3", "6", "8", "5", "4", "7", "7", "5",
      "8", "0", "8">>

(* str::parse::<i64>: an optional sign, then digits, within the i64 range *)
parse_i64(x) ==
    LET signed == x # <<>> /\ Head(x) \in {"+", "-"}
        body == IF signed THEN Tail(x) ELSE x
        neg == signed /\ Head(x) = "-"
        mag == strip_zeros(body)
    IN IF body = <<>> \/ \E i \in 1..Len(body) : ~IsDigit(body[i]) THEN None
       ELSE IF DigitsLess(IF neg THEN I64MinDigits ELSE I64MaxDigits, mag) THEN None
       ELSE Some([neg |-> neg /\ mag # <<"0">>, mag |-> mag])

(* ts / 1000, truncating toward zero *)
div_1000(ts) ==
    LET mag == IF Len(ts.mag) <= 3 THEN <<"0">> ELSE SubSeq(ts.mag, 1, Len(ts.mag) - 3)
    IN [neg |-> ts.neg /\ mag # <<"0">>, mag |-> mag]

(* {} of an i64 *)
I64ToChars(n) == (IF n.neg THEN <<"-">> ELSE <<>>) \o n.mag

(* the quotient of a digit string by a small divisor, by long division *)
RECURSIVE div_digits(_, _, _, _)
div_digits(d, by, q, r) ==
    IF d = <<>> THEN q
    ELSE LET cur == r * 10 + DigitVal(Head(d)) IN
         div_digits(Tail(d), by, q * 10 + (cur \div by), cur % by)

(* inline.rs: is_leap_year *)
is_leap_year(year) == (year % 4 = 0 /\ year % 100 # 0) \/ (year % 400 = 0)

(* inline.rs: chrono_format_date, the loop over the years: it stops at the  *)
(* first year whose days are more than the days left after the years before *)
year_loop(first_year, days) ==
    LET days_through(y) ==
            365 * (y + 1 - first_year)
            + Cardinality({z \in first_year..y : is_leap_year(z)})
        year == CHOOSE y \in first_year..(first_year + days \div 365) :
                    days_through(y - 1) <= days /\ days < days_through(y)
    IN [year |-> year, remaining_days |-> days - days_through(year - 1)]

(* inline.rs: chrono_format_date, the loop over the months *)
RECURSIVE month_loop(_, _, _)
month_loop(days_in_months, month, remaining_days) ==
    IF days_in_months = <<>> \/ remaining_days < Head(days_in_months)
    THEN [month |-> month, remaining_days |-> remaining_days]
    ELSE month_loop(Tail(days_in_months), month + 1,
                    remaining_days - Head(days_in_months))

(* {:0w} of a non-negative number *)
ZeroPad(n, w) ==
    LET d == NatToChars(n) IN
    IF Len(d) >= w THEN d ELSE repeat(<<"0">>, w - Len(d)) \o d

MAX_SECS == <<"3", "2", "5", "0", "3", "6", "8", "0", "0", "0", "0">>
SecsPerDay == 86400

(* inline.rs: chrono_format_date *)
chrono_format_date(secs) ==
    IF secs.neg THEN M_pre_epoch \o I64ToChars(secs) \o <<")">>
    ELSE IF DigitsLess(MAX_SECS, secs.mag)
    THEN M_invalid_timestamp \o I64ToChars(secs) \o <<")">>
    ELSE
        LET days_since_epoch == div_digits(secs.mag, SecsPerDay, 0, 0)
            y == year_loop(1970, days_since_epoch)
            days_in_months ==
                IF is_leap_year(y.year)
                THEN <<31, 29, 31, 30, 31, 30, 31, 31, 30, 31, 30, 31>>
                ELSE <<31, 28, 31, 30, 31, 30, 31, 31, 30, 31, 30, 31>>
            m == month_loop(days_in_months, 1, y.remaining_days)
            day == m.remaining_days + 1
        IN ZeroPad(y.year, 4) \o <<"-">> \o ZeroPad(m.month, 2) \o <<"-">>
           \o ZeroPad(day, 2)

(* inline.rs: convert_date *)
convert_date(node) ==
    LET timestamp == attr_str_or(Get(node, "attrs"), "timestamp", <<>>)
        ts == parse_i64(timestamp)
    IN IF timestamp = <<>> THEN <<>>
       ELSE IF ts # None THEN chrono_format_date(div_1000(ts.v))
       ELSE timestamp

(* convert_inline_node giving the type name for a kind it does not know *)
convert_inline_node_echo(node) ==
    LET node_type == attr_str_or(node, "type", <<>>) IN
    CASE node_type = S_text -> convert_text(node)
      [] node_type = S_hardBreak -> <<"\n">>
      [] node_type = S_mention -> convert_mention(node)
      [] node_type = S_emoji -> convert_emoji(node)
      [] node_type = S_inlineCard -> convert_inline_card(node)
      [] node_type = S_date -> convert_date(node)
      [] node_type = S_status -> convert_status(node)
      [] node_type = S_mediaInline -> convert_media_inline(node)
      [] node_type = S_placeholder -> convert_placeholder(node)
      [] OTHER -> node_type

(* inline.rs: convert_inline_node *)
convert_inline_node(node) ==
    LET node_type == attr_str_or(node, "type", <<>>) IN
    CASE node_type = S_text -> convert_text(node)
      [] node_type = S_hardBreak -> <<"\n">>
      [] node_type = S_mention -> convert_mention(node)
      [] node_type = S_emoji -> convert_emoji(node)
      [] node_type = S_inlineCard -> convert_inline_card(node)
      [] node_type = S_date -> convert_date(node)
      [] node_type = S_status -> convert_status(node)
      [] node_type = S_mediaInline -> convert_media_inline(node)
      [] node_type = S_placeholder -> convert_placeholder(node)
      [] OTHER -> <<>>

(* inline.rs: convert_inline_nodes *)
RECURSIVE convert_inline_nodes(_)
convert_inline_nodes(nodes) ==
    IF nodes = <<>> THEN <<>>
    ELSE convert_inline_node(Head(nodes)) \o convert_inline_nodes(Tail(nodes))

-----------------------------------------------------------------------------
(* markdown/adf/blocks.rs *)
MAX_DEPTH == 50

(* an Option as the iterator filter_map sees it: no element or one *)
some_seq(opt) == IF opt = None THEN <<>> ELSE <<opt.v>>

(* Option::map(|x| format!("{}{}", prefix, x)) *)
map_prefix(prefix, opt) == IF opt = None THEN None ELSE Some(prefix \o opt.v)

(* if parts.is_empty() { None } else { Some(parts.join(sep)) } *)
join_or_none(parts, sep) == IF parts = <<>> THEN None ELSE Some(JoinWith(parts, sep))

(* if text.trim().is_empty() { None } else { Some(text) } *)
non_blank(text) == IF trim_is_empty(text) THEN None ELSE Some(text)

RECURSIVE convert_block_node(_, _)
RECURSIVE convert_bullet_list(_, _)
RECURSIVE convert_ordered_list(_, _)
RECURSIVE convert_list_item(_, _)

(* arr.iter().filter_map(|n| convert_block_node(n, 0)).collect() *)
RECURSIVE filter_map_blocks(_)
filter_map_blocks(arr) ==
    IF arr = <<>> THEN <<>>
    ELSE some_seq(convert_block_node(Head(arr), 0)) \o filter_map_blocks(Tail(arr))

(* blocks.rs: convert_children *)
convert_children(node) ==
    LET c == as_array(Get(node, "content")) IN
    IF c = None THEN <<>> ELSE JoinWith(filter_map_blocks(c.a), <<"\n", "\n">>)

(* blocks.rs: convert_paragraph *)
convert_paragraph(node) ==
    LET content == as_array(Get(node, "content")) IN
    IF content = None THEN None ELSE non_blank(convert_inline_nodes(content.a))

(* blocks.rs: convert_heading *)
convert_heading(node) ==
    LET l == as_u64(Get(Get(node, "attrs"), "level"))
        level == IF l = None THEN 1 ELSE l.v
        content == as_array(Get(node, "content"))
    IN IF content = None THEN None
       ELSE map_prefix(repeat(<<"#">>, Min(level, 6)) \o <<" ">>,
                       non_blank(convert_inline_nodes(content.a)))

(* blocks.rs: convert_bullet_list, the filter_map over the items *)
RECURSIVE bullet_lines(_, _)
bullet_lines(items, depth) ==
    IF items = <<>> THEN <<>>
    ELSE some_seq(map_prefix(repeat(<<" ", " ">>, depth) \o <<"-", " ">>,
                             convert_list_item(Head(items), depth)))
         \o bullet_lines(Tail(items), depth)

convert_bullet_list(node, depth) ==
    LET items == as_array(Get(node, "content")) IN
    IF items = None THEN None
    ELSE join_or_none(bullet_lines(items.a, depth), <<"\n">>)

(* blocks.rs: convert_ordered_list, the filter_map over the enumerated items *)
RECURSIVE ordered_lines(_, _, _)
ordered_lines(items, i, depth) ==
    IF items = <<>> THEN <<>>
    ELSE some_seq(map_prefix(repeat(<<" ", " ">>, depth) \o NatToChars(i + 1)
                             \o <<".", " ">>,
                             convert_list_item(Head(items), depth)))
         \o ordered_lines(Tail(items), i + 1, depth)

convert_ordered_list(node, depth) ==
    LET items == as_array(Get(node, "content")) IN
    IF items = None THEN None
    ELSE join_or_none(ordered_lines(items.a, 0, depth), <<"\n">>)

(* blocks.rs: convert_list_item, what one child adds to the parts *)
list_item_part(child, depth) ==
    LET child_type == attr_str_or(child, "type", <<>>) IN
    CASE child_type = S_paragraph -> convert_paragraph(child)
      [] child_type = S_bulletList ->
            map_prefix(<<"\n">>, convert_bullet_list(child, depth + 1))
      [] child_type = S_orderedList ->
            map_prefix(<<"\n">>, convert_ordered_list(child, depth + 1))
      [] OTHER -> convert_block_node(child, depth + 1)

(* blocks.rs: convert_list_item, the loop over the children *)
RECURSIVE list_item_parts(_, _)
list_item_parts(content, depth) ==
    IF content = <<>> THEN <<>>
    ELSE some_seq(list_item_part(Head(content), depth))
         \o list_item_parts(Tail(content), depth)

convert_list_item(node, depth) ==
    LET content == as_array(Get(node, "content")) IN
    IF content = None THEN None
    ELSE join_or_none(list_item_parts(content.a, depth), <<" ">>)

(* blocks.rs: convert_code_block, the texts of the children *)
RECURSIVE code_texts(_)
code_texts(nodes) ==
    IF nodes = <<>> THEN <<>>
    ELSE LET t == attr_str(Head(nodes), "text") IN
         (IF t = None THEN <<>> ELSE t.s) \o code_texts(Tail(nodes))

(* blocks.rs: convert_code_block *)
convert_code_block(node) ==
    LET language == attr_str_or(Get(node, "attrs"), "language", <<>>)
        c == as_array(Get(node, "content"))
        code == IF c = None THEN <<>> ELSE code_texts(c.a)
    IN Some(<<Backtick, Backtick, Backtick>> \o language \o <<"\n">> \o code
            \o <<"\n", Backtick, Backtick, Backtick>>)

(* text.lines().map(|l| format!("> {}", l)) *)
quoted(ls) == [i \in 1..Len(ls) |-> S_quote_prefix \o ls[i]]

(* the quoted lines of the converted children *)
RECURSIVE quote_lines(_)
quote_lines(texts) ==
    IF texts = <<>> THEN <<>>
    ELSE quoted(lines(Head(texts))) \o quote_lines(Tail(texts))

(* blocks.rs: convert_blockquote *)
convert_blockquote(node) ==
    LET content == as_array(Get(node, "content")) IN
    IF content = None THEN None
    ELSE join_or_none(quote_lines(filter_map_blocks(content.a)), <<"\n">>)

(* blocks.rs: convert_panel *)
convert_panel(node) ==
    LET panel_type ==
            to_uppercase(attr_str_or(Get(node, "attrs"), "panelType", S_info))
        content == as_array(Get(node, "content"))
    IN IF content = None THEN None
       ELSE map_prefix(S_panel_open \o panel_type \o S_panel_close,
                       join_or_none(filter_map_blocks(content.a), <<" ">>))

(* blocks.rs: convert_cell_content *)
convert_cell_content(cell) ==
    LET c == as_array(Get(cell, "content")) IN
    replace(IF c = None THEN <<>> ELSE JoinWith(filter_map_blocks(c.a), <<" ">>),
            "|", S_escaped_pipe)

(* the content of a cell, then colspan - 1 empty cells *)
spanned(content, colspan) == [i \in 1..colspan |-> IF i = 1 THEN content ELSE <<>>]

(* blocks.rs: convert_table, the loop over the cells of one row *)
RECURSIVE row_cells_of(_)
row_cells_of(cells) ==
    IF cells = <<>> THEN <<>>
    ELSE LET c == as_u64(Get(Get(Head(cells), "attrs"), "colspan")) IN
         spanned(convert_cell_content(Head(cells)), IF c = None THEN 1 ELSE c.v)
         \o row_cells_of(Tail(cells))

(* "| a | b |" *)
table_line(row_cells) ==
    S_row_open \o JoinWith(row_cells, S_cell_sep) \o S_row_close

(* the lines one row adds: the row, and after the first row the separator *)
row_lines(row_cells, is_first_row) ==
    IF is_first_row
    THEN <<table_line(row_cells),
           table_line([i \in 1..Len(row_cells) |-> S_rule_line])>>
    ELSE <<table_line(row_cells)>>

(* blocks.rs: convert_table, the loop over the rows; None when a row has no *)
(* content array                                                           *)
RECURSIVE table_rows(_, _, _)
table_rows(rows, result, is_first_row) ==
    IF rows = <<>> THEN Some(JoinWith(result, <<"\n">>))
    ELSE
        LET cells == as_array(Get(Head(rows), "content")) IN
        IF cells = None THEN None
        ELSE table_rows(Tail(rows),
                        result \o row_lines(row_cells_of(cells.a), is_first_row),
                        FALSE)

(* blocks.rs: convert_table *)
convert_table(node) ==
    LET rows == as_array(Get(node, "content")) IN
    IF rows = None THEN None
    ELSE IF rows.a = <<>> THEN None
    ELSE table_rows(rows.a, <<>>, TRUE)

(* the alt text of a media node: alt, else id, else "media" *)
media_alt(attrs) ==
    IF attr_str(attrs, "alt") # None THEN attr_str(attrs, "alt").s
    ELSE attr_str_or(attrs, "id", S_media)

(* blocks.rs: convert_media, the loop over the children *)
RECURSIVE media_loop(_)
media_loop(content) ==
    IF content = <<>> THEN Some(S_media_bare)
    ELSE IF Get(Head(content), "attrs") # None
    THEN Some(S_media_open \o media_alt(Get(Head(content), "attrs")) \o <<"]">>)
    ELSE media_loop(Tail(content))

(* blocks.rs: convert_media *)
convert_media(node) ==
    LET content == as_array(Get(node, "content")) IN
    IF content = None THEN None ELSE media_loop(content.a)

(* blocks.rs: convert_expand *)
convert_expand(node) ==
    LET title == attr_str_or(Get(node, "attrs"), "title", S_Details)
        content == as_array(Get(node, "content"))
    IN IF content = None THEN None
       ELSE map_prefix(S_bold \o title \o S_bold \o <<"\n", "\n">>,
                       join_or_none(filter_map_blocks(content.a), <<"\n", "\n">>))

(* the children of a task or decision item, joined by a space *)
item_content(node) ==
    LET c == as_array(Get(node, "content")) IN
    IF c = None THEN <<>> ELSE JoinWith(filter_map_blocks(c.a), <<" ">>)

(* blocks.rs: convert_task_item *)
convert_task_item(node) ==
    LET state == attr_str_or(Get(node, "attrs"), "state", S_TODO)
        checkbox == IF state = S_DONE THEN S_checked ELSE S_unchecked
    IN Some(<<"-", " ">> \o checkbox \o <<" ">> \o item_content(node))

(* blocks.rs: convert_decision_item *)
convert_decision_item(node) ==
    LET state == attr_str_or(Get(node, "attrs"), "state", S_DECIDED)
        icon == IF state = S_DECIDED THEN S_checked ELSE S_unchecked
    IN Some(<<"-", " ">> \o icon \o <<" ">> \o item_content(node))

(* blocks.rs: convert_task_list *)
convert_task_list(node) ==
    LET items == as_array(Get(node, "content")) IN
    IF items = None THEN None
    ELSE join_or_none([i \in 1..Len(items.a) |-> convert_task_item(items.a[i]).v],
                      <<"\n">>)

(* blocks.rs: convert_decision_list *)
convert_decision_list(node) ==
    LET items == as_array(Get(node, "content")) IN
    IF items = None THEN None
    ELSE join_or_none([i \in 1..Len(items.a) |-> convert_decision_item(items.a[i]).v],
                      <<"\n">>)

(* blocks.rs: convert_layout_column *)
convert_layout_column(node) ==
    LET content == as_array(Get(node, "content")) IN
    IF content = None THEN None
    ELSE join_or_none(filter_map_blocks(content.a), <<"\n", "\n">>)

(* blocks.rs: convert_layout_section, the filter_map over the columns *)
RECURSIVE layout_columns(_)
layout_columns(content) ==
    IF content = <<>> THEN <<>>
    ELSE some_seq(convert_layout_column(Head(content)))
         \o layout_columns(Tail(content))

(* blocks.rs: convert_layout_section *)
convert_layout_section(node) ==
    LET content == as_array(Get(node, "content")) IN
    IF content = None THEN None
    ELSE join_or_none(layout_columns(content.a), S_column_sep)

(* blocks.rs: convert_embed_card *)
convert_embed_card(node) ==
    LET attrs == Get(node, "attrs")
        url == attr_str_or(attrs, "url", <<>>)
    IN IF attrs = None THEN None
       ELSE IF url = <<>> THEN Some(M_embedded)
       ELSE Some(<<"[">> \o url \o <<"]", "(">> \o url \o <<")">>)

(* if content.is_empty() { otherwise } else { Some(prefix + content) } *)
content_or(prefix, content, otherwise) ==
    IF content = <<>> THEN otherwise ELSE Some(prefix \o content)

(* blocks.rs: convert_extension *)
convert_extension(node) ==
    content_or(<<>>, convert_children(node),
               Some(S_extension_open
                    \o attr_str_or(Get(node, "attrs"), "extensionType", S_extension)
                    \o <<"]">>))

(* blocks.rs: convert_extension_frame *)
convert_extension_frame(node) == Some(convert_children(node))

(* a guard that already trips at the limit *)
reaches_max_depth(d) == d >= MAX_DEPTH

(* blocks.rs: convert_block_node, the guard *)
exceeds_max_depth(d) == d > MAX_DEPTH

(* blocks.rs: convert_block_node *)
convert_block_node(node, depth) ==
    IF exceeds_max_depth(depth) THEN Some(M_truncated)
    ELSE
        LET t == as_str(Get(node, "type")) IN
        IF t = None THEN None
        ELSE
            LET node_type == t.s IN
            CASE node_type = S_paragraph -> convert_paragraph(node)
              [] node_type = S_heading -> convert_heading(node)
              [] node_type = S_bulletList -> convert_bullet_list(node, depth)
              [] node_type = S_orderedList -> convert_ordered_list(node, depth)
              [] node_type = S_listItem -> convert_list_item(node, depth)
              [] node_type = S_codeBlock -> convert_code_block(node)
              [] node_type = S_blockquote -> convert_blockquote(node)
              [] node_type = S_rule -> Some(S_rule_line)
              [] node_type = S_panel -> convert_panel(node)
              [] node_type = S_table -> convert_table(node)
              [] node_type \in {S_mediaSingle, S_mediaGroup} -> convert_media(node)
              [] node_type \in {S_expand, S_nestedExpand} -> convert_expand(node)
              [] node_type = S_taskList -> convert_task_list(node)
              [] node_type = S_taskItem -> convert_task_item(node)
              [] node_type = S_decisionList -> convert_decision_list(node)
              [] node_type = S_decisionItem -> convert_decision_item(node)
              [] node_type = S_layoutSection -> convert_layout_section(node)
              [] node_type = S_layoutColumn -> convert_layout_column(node)
              [] node_type = S_embedCard -> convert_embed_card(node)
              [] node_type \in {S_bodiedExtension, S_multiBodiedExtension} ->
                    convert_extension(node)
              [] node_type = S_extensionFrame -> convert_extension_frame(node)
              [] OTHER ->
                    content_or(M_unsupported_open \o node_type \o M_unsupported_close,
                               convert_children(node), None)

-----------------------------------------------------------------------------
(* markdown/common.rs: normalize_whitespace, the loop over the lines *)
RECURSIVE normalize_loop(_, _, _)
normalize_loop(todo, kept, prev_empty) ==
    IF todo = <<>> THEN kept
    ELSE IF trim_is_empty(Head(todo))
    THEN normalize_loop(Tail(todo),
                        IF ~prev_empty THEN Append(kept, <<>>) ELSE kept, TRUE)
    ELSE normalize_loop(Tail(todo), Append(kept, Head(todo)), FALSE)

(* markdown/common.rs: normalize_whitespace, from the first to the last    *)
(* non-empty line                                                          *)
trim_empty_lines(ls) ==
    LET filled == {i \in 1..Len(ls) : ls[i] # <<>>}
        start == IF filled = {} THEN Len(ls)
                 ELSE (CHOOSE i \in filled : \A j \in filled : i <= j) - 1
        end == IF filled = {} THEN 0
               ELSE CHOOSE i \in filled : \A j \in filled : j <= i
    IN IF start >= end THEN <<>>
       ELSE JoinWith(SubSeq(ls, start + 1, end), <<"\n">>)

(* markdown/common.rs: normalize_whitespace *)
normalize_whitespace(text) ==
    trim_empty_lines(normalize_loop(lines(text), <<>>, FALSE))

(* adf_to_markdown returning the joined blocks as they are *)
adf_to_markdown_joined(doc) ==
    LET content == as_array(Get(doc, "content")) IN
    IF content = None THEN <<>>
    ELSE JoinWith(filter_map_blocks(content.a), <<"\n", "\n">>)

(* markdown/adf/mod.rs: adf_to_markdown *)
adf_to_markdown(doc) ==
    LET content == as_array(Get(doc, "content")) IN
    IF content = None THEN <<>>
    ELSE normalize_whitespace(JoinWith(filter_map_blocks(content.a), <<"\n", "\n">>))

----------------------------------------------------------------------------
(* Inputs of validate_adf and process_adf_input *)
MaxVersion == 2
MaxNest == 2

(* a bulletList nested d levels deep around one marked text *)
RECURSIVE Nested(_)
Nested(d) ==
    IF d = 0
    THEN JObj([type |-> JStr(S_paragraph),
               content |-> JArr(<<SetKey(TextNode(<<"N">>), "marks",
                                         JArr(<<Mark(S_strong), Mark(S_em)>>))>>)])
    ELSE JObj([type |-> JStr(S_bulletList),
               content |-> JArr(<<JObj([type |-> JStr(S_listItem),
                                        content |-> JArr(<<Nested(d - 1)>>)])>>)])

Absent == None

TypeChoices == {Absent, JStr(S_doc), JStr(S_paragraph), JInt(1), Null}

VersionChoices ==
    {Absent, Null, JFloat(1, 0), JStr(<<"1">>), JBigU64(1)}
    \cup {JInt(n) : n \in -1..MaxVersion}

ContentChoices ==
    {Absent, Null, JStr(<<"x">>), JObj([type |-> JStr(S_paragraph)]),
     JArr(<<>>), JArr(<<JInt(5), Null, JObj([version |-> JStr(<<>>)])>>)}
    \cup {JArr(<<Nested(d)>>) : d \in 0..MaxNest}

ExtraChoices == {Absent, JBool(TRUE)}

(* the object holding the chosen keys *)
MkObject(t, v, c, x) ==
    LET given == [type |-> t, version |-> v, content |-> c, extra |-> x]
        keys == {key \in DOMAIN given : given[key] # Absent}
    IN JObj([key \in keys |-> given[key]])

Objects ==
    {MkObject(t, v, c, x) :
        t \in TypeChoices, v \in VersionChoices, c \in ContentChoices, x \in ExtraChoices}

PlainTexts == {<<>>, <<" ", "\t">>, <<"H", "i">>, <<"c", "a", "f", "e">>}

OtherValues ==
    {Null, JBool(TRUE), JBool(FALSE), JInt(123), JFloat(1, 5),
     JArr(<<>>), JArr(<<JStr(<<"n", "o", "t">>), JInt(1)>>)}
    \cup {JStr(s) : s \in PlainTexts}

InputValues == Objects \cup OtherValues

BuilderIdle ==
    /\ events = <<>>
    /\ stack = <<>>
    /\ doc_content = <<>>
    /\ marks = <<>>
    /\ in_table_head = FALSE

RenderIdle == source = <<>> /\ adf = None /\ markdown = <<>> /\ call_depth = 0

MarksIdle == mark_text = <<>> /\ mark_list = None /\ marked = <<>>

SearchIdle ==
    /\ args = None
    /\ all_items = <<>>
    /\ next_page = None
    /\ page_num = 1
    /\ requests = <<>>
    /\ pages = <<>>
    /\ printed = <<>>

----------------------------------------------------------------------------
(* The validator and the input dispatcher: one call on one input *)
Init ==
    /\ pc = "start"
    /\ value \in InputValues
    /\ field_name = <<>>
    /\ outcome = None
    /\ BuilderIdle /\ RenderIdle /\ MarksIdle /\ SearchIdle

ValidateAdf ==
    /\ pc = "start"
    /\ outcome' = validate_adf(value)
    /\ pc' = "validated"
    /\ UNCHANGED <<value, field_name, builderVars, renderVars, markVars,
        searchVars>>

ProcessDescriptionInput ==
    /\ pc = "start"
    /\ field_name' = S_description
    /\ outcome' = process_description_input(value)
    /\ pc' = "processed"
    /\ UNCHANGED <<value, builderVars, renderVars, markVars, searchVars>>

ProcessCommentInput ==
    /\ pc = "start"
    /\ field_name' = S_comment
    /\ outcome' = process_comment_input(value)
    /\ pc' = "processed"
    /\ UNCHANGED <<value, builderVars, renderVars, markVars, searchVars>>

Next == ValidateAdf \/ ProcessDescriptionInput \/ ProcessCommentInput

Spec == Init /\ [][Next]_vars

----------------------------------------------------------------------------
(* markdown_to_adf, one parser event at a time: any event may follow any   *)
(* other, so the streams include unbalanced ones.                          *)
MaxEvents == 3

BuildTexts == {<<"a">>, <<"H", "i", " ", "x">>}

StartTags ==
    {Tag("Paragraph"), TagHeading(2), Tag("BlockQuote"),
     TagCodeBlock("Fenced", <<"r", "s">>), TagList(None), TagList(Some(1)),
     Tag("Item"), Tag("TableHead"), Tag("TableCell"), Tag("Strong"),
     Tag("Emphasis"), Tag("Strikethrough"), TagLink(<<"u">>), TagImage(<<"v">>),
     Tag("HtmlBlock")}

EndTags ==
    {Tag("Paragraph"), Tag("Item"), Tag("TableHead"), Tag("TableCell"),
     Tag("Strong"), Tag("Emphasis"), Tag("Strikethrough"), Tag("Link"), Tag("Image"),
     Tag("HtmlBlock")}

IgnoredEvents == {Html(<<"<", "b", ">">>)}

CurrentBuilder == Builder(stack, doc_content, marks, in_table_head)

(* the loop takes event ev and leaves the builder as b *)
Consume(ev, b) ==
    /\ pc = "parsing"
    /\ Len(events) < MaxEvents
    /\ events' = Append(events, ev)
    /\ stack' = b.stack
    /\ doc_content' = b.doc_content
    /\ marks' = b.marks
    /\ in_table_head' = b.in_table_head
    /\ UNCHANGED <<pc, inputVars, renderVars, markVars, searchVars>>

InitBuild ==
    /\ pc = "parsing"
    /\ value = None /\ field_name = <<>> /\ outcome = None
    /\ BuilderIdle /\ RenderIdle /\ MarksIdle /\ SearchIdle

EventStart == \E tag \in StartTags : Consume(Start(tag), on_Start(CurrentBuilder, tag))

EventEnd == \E tag \in EndTags : Consume(End(tag), on_End(CurrentBuilder, tag))

EventText == \E s \in BuildTexts : Consume(Text(s), on_Text(CurrentBuilder, s))

EventCode == \E s \in BuildTexts : Consume(Code(s), on_Code(CurrentBuilder, s))

EventSoftBreak == Consume(SoftBreak, on_SoftBreak(CurrentBuilder))

EventHardBreak == Consume(HardBreak, on_HardBreak(CurrentBuilder))

EventRule == Consume(Rule, on_Rule(CurrentBuilder))

EventTaskListMarker ==
    \E checked \in BOOLEAN :
        Consume(TaskListMarker(checked), on_TaskListMarker(CurrentBuilder, checked))

EventIgnored == \E ev \in IgnoredEvents : Consume(ev, handle_event(CurrentBuilder, ev))

(* the parser is exhausted: the document is returned *)
ReturnDoc ==
    /\ pc = "parsing"
    /\ pc' = "built"
    /\ outcome' = build_doc(doc_content)
    /\ UNCHANGED <<value, field_name, builderVars, renderVars, markVars,
        searchVars>>

NextBuild ==
    \/ EventStart \/ EventEnd \/ EventText \/ EventCode \/ EventSoftBreak
    \/ EventHardBreak \/ EventRule \/ EventTaskListMarker \/ EventIgnored
    \/ ReturnDoc

SpecBuild == InitBuild /\ [][NextBuild]_vars

-----------------------------------------------------------------------------
(* markdown_to_adf on well-nested streams of up to MaxNested events: an    *)
(* end tag is fed only for the innermost block that the events fed so far  *)
(* leave open.                                                             *)
MaxNested == 5

NestedStartTags ==
    {Tag("Paragraph"), Tag("BlockQuote"), TagList(None), Tag("Item"),
     Tag("TableCell"), Tag("HtmlBlock")}

(* the tags that the events leave open, outermost first *)
RECURSIVE OpenTags(_)
OpenTags(evs) ==
    IF evs = <<>> THEN <<>>
    ELSE IF Last(evs).e = "Start" THEN Append(OpenTags(Front(evs)), Last(evs).tag)
    ELSE IF Last(evs).e = "End" THEN Front(OpenTags(Front(evs)))
    ELSE OpenTags(Front(evs))

InitNested ==
    /\ pc = "parsing"
    /\ value = None /\ field_name = <<>> /\ outcome = None
    /\ BuilderIdle /\ RenderIdle /\ MarksIdle /\ SearchIdle

(* the loop takes event ev of a well-nested stream *)
ConsumeNested(ev) ==
    LET b == handle_event(CurrentBuilder, ev) IN
    /\ pc = "parsing"
    /\ Len(events) < MaxNested
    /\ events' = Append(events, ev)
    /\ stack' = b.stack
    /\ doc_content' = b.doc_content
    /\ marks' = b.marks
    /\ in_table_head' = b.in_table_head
    /\ UNCHANGED <<pc, inputVars, renderVars, markVars, searchVars>>

NestedStart == \E tag \in NestedStartTags : ConsumeNested(Start(tag))

NestedEnd ==
    /\ OpenTags(events) # <<>>
    /\ ConsumeNested(End(Tag(Last(OpenTags(events)).t)))

NestedText == ConsumeNested(Text(<<"a">>))

NestedRule == ConsumeNested(Rule)

(* the parser is exhausted with every block closed *)
NestedReturn ==
    /\ pc = "parsing"
    /\ OpenTags(events) = <<>>
    /\ pc' = "built"
    /\ outcome' = build_doc(doc_content)
    /\ UNCHANGED <<value, field_name, builderVars, renderVars, markVars,
        searchVars>>

NextNested == NestedStart \/ NestedEnd \/ NestedText \/ NestedRule \/ NestedReturn

SpecNested == InitNested /\ [][NextNested]_vars

----------------------------------------------------------------------------
(* apply_marks on one text and one list of marks *)
MaxMarks == 2

MarkTexts == {<<"t", "e", "x", "t">>, <<"x">>}

(* link marks: hrefs with a dangerous scheme in several letter cases, a     *)
(* near miss, safe hrefs with and without a title, and attrs that are      *)
(* missing or of the wrong JSON type                                       *)
LinkWith(href, title) ==
    JObj([type |-> JStr(S_link), attrs |-> JObj([href |-> href, title |-> title])])

LinkChoices ==
    {LinkMark(<<"J", "a", "V", "a", "S", "c", "R", "i", "P", "t", ":", "a">>),
     LinkMark(<<"j", "a", "v", "a", "s", "c", "r", "i", "p", "t", ":">>),
     LinkMark(<<"V", "B", "S", "C", "R", "I", "P", "T", ":", "a">>),
     LinkMark(<<"D", "a", "t", "a", ":", "a">>),
     LinkMark(<<"d", "a", "t", "a">>),
     LinkMark(<<>>),
     Mark(S_link),
     JObj([type |-> JStr(S_link), attrs |-> Null]),
     LinkWith(JInt(1), JStr(<<"T">>)),
     LinkWith(JStr(<<"h", ":", "a">>), JStr(<<"T">>)),
     LinkWith(JStr(<<"h", ":", "a">>), JInt(1)),
     LinkWith(JStr(<<"d", "A", "t", "A", ":", "a">>), JStr(<<"T">>))}

MarkChoices ==
    LinkChoices \cup
    {Mark(S_strong), Mark(S_em), Mark(S_code), Mark(S_strike), Mark(S_underline),
     LinkMark(<<"h", ":", "a">>),
     JObj([type |-> JStr(S_subsup), attrs |-> JObj([type |-> JStr(S_sup)])]),
     JObj([type |-> JStr(S_textColor), attrs |-> JObj([color |-> JStr(<<"r">>)])]),
     Mark(S_backgroundColor),
     Mark(<<"b", "l", "i", "n", "k">>), JObj([type |-> JInt(1)]), Null}

RECURSIVE SeqsUpTo(_, _)
SeqsUpTo(S, n) ==
    IF n = 0 THEN {<<>>}
    ELSE LET shorter == SeqsUpTo(S, n - 1) IN
         shorter \cup {Append(q, x) : q \in shorter, x \in S}

InitMarks ==
    /\ pc = "start"
    /\ mark_text \in MarkTexts
    /\ mark_list \in {None} \cup {Some(ms) : ms \in SeqsUpTo(MarkChoices, MaxMarks)}
    /\ marked = <<>>
    /\ value = None /\ field_name = <<>> /\ outcome = None
    /\ BuilderIdle /\ RenderIdle /\ SearchIdle

ApplyMarks ==
    /\ pc = "start"
    /\ marked' = apply_marks(mark_text, mark_list)
    /\ pc' = "marked"
    /\ UNCHANGED <<mark_text, mark_list, inputVars, builderVars, renderVars,
        searchVars>>

NextMarks == ApplyMarks

SpecMarks == InitMarks /\ [][NextMarks]_vars

-----------------------------------------------------------------------------
(* text_to_adf followed by adf_to_markdown on simple Markdown documents.   *)
(* A document is a sequence of blocks: a heading (level, text), a          *)
(* paragraph (spans of plain, bold or inline-code text), a tight list      *)
(* (ordered or not, item texts), a fenced code block (language, body       *)
(* lines) or a table (header cells, rows of cells).                        *)
MaxBlocks == 2

MdHeading(level, text) == [b |-> "heading", level |-> level, text |-> text]
MdParagraph(spans) == [b |-> "paragraph", spans |-> spans]
MdList(ordered, items) == [b |-> "list", ordered |-> ordered, items |-> items]
MdCode(lang, body) == [b |-> "code", lang |-> lang, body |-> body]
MdTable(header, rows) == [b |-> "table", header |-> header, rows |-> rows]
Plain(t) == [s |-> "plain", text |-> t]
Bold(t) == [s |-> "bold", text |-> t]
InlineCode(t) == [s |-> "code", text |-> t]

(* the events of one span *)
SpanEvents(span) ==
    CASE span.s = "plain" -> <<Text(span.text)>>
      [] span.s = "bold" ->
            <<Start(Tag("Strong")), Text(span.text), End(Tag("Strong"))>>
      [] span.s = "code" -> <<Code(span.text)>>

(* the events of the cells of a table row *)
CellEvents(cells) ==
    JoinWith([i \in 1..Len(cells) |->
                 <<Start(Tag("TableCell")), Text(cells[i]), End(Tag("TableCell"))>>],
             <<>>)

(* the events pulldown-cmark produces for one block *)
BlockEvents(block) ==
    CASE block.b = "heading" ->
            <<Start(TagHeading(block.level)), Text(block.text), End(Tag("Heading"))>>
      [] block.b = "paragraph" ->
            <<Start(Tag("Paragraph"))>>
            \o JoinWith([i \in 1..Len(block.spans) |-> SpanEvents(block.spans[i])],
                        <<>>)
            \o <<End(Tag("Paragraph"))>>
      [] block.b = "list" ->
            <<Start(TagList(IF block.ordered THEN Some(1) ELSE None))>>
            \o JoinWith([i \in 1..Len(block.items) |->
                            <<Start(Tag("Item")), Text(block.items[i]),
                              End(Tag("Item"))>>], <<>>)
            \o <<End(Tag("List"))>>
      [] block.b = "code" ->
            <<Start(TagCodeBlock("Fenced", block.lang))>>
            \o [i \in 1..Len(block.body) |-> Text(block.body[i] \o <<"\n">>)]
            \o <<End(Tag("CodeBlock"))>>
      [] block.b = "table" ->
            <<Start(Tag("Table")), Start(Tag("TableHead"))>>
            \o CellEvents(block.header)
            \o <<End(Tag("TableHead"))>>
            \o JoinWith([r \in 1..Len(block.rows) |->
                            <<Start(Tag("TableRow"))>> \o CellEvents(block.rows[r])
                            \o <<End(Tag("TableRow"))>>], <<>>)
            \o <<End(Tag("Table"))>>

(* Parser::new_ext on the Markdown text of a document of such blocks *)
ParserOfBlocks(doc) ==
    JoinWith([i \in 1..Len(doc) |-> BlockEvents(doc[i])], <<>>)

SimpleBlocks ==
    {MdHeading(l, <<"T">>) : l \in 1..6}
    \cup {MdParagraph(<<Plain(<<"p", "q">>)>>),
          MdParagraph(<<Bold(<<"b">>)>>),
          MdParagraph(<<Plain(<<"a", " ">>), InlineCode(<<"c">>), Plain(<<" ">>),
                        Bold(<<"b">>)>>)}
    \cup {MdList(FALSE, <<<<"x">>, <<"y">>>>),
          MdList(TRUE, <<<<"x">>>>),
          MdList(TRUE, <<<<"x">>, <<"y">>, <<"z">>>>)}
    \cup {MdCode(<<"r", "s">>, <<<<"a">>>>),
          MdCode(<<>>, <<<<"a">>, <<"b">>>>),
          MdCode(<<>>, <<<<"a">>, <<>>, <<"b">>>>),
          MdCode(<<>>, <<<<"a">>, <<>>, <<>>, <<"b">>>>),
          MdCode(<<"r", "s">>, <<<<"a">>, <<" ", " ">>, <<"b">>>>)}
    \cup {MdTable(<<<<"H">>, <<"K">>>>, <<<<<<"c">>, <<"d">>>>>>),
          MdTable(<<<<"H">>>>, <<<<<<"c">>>>, <<<<"e">>>>>>)}

SimpleDocs == SeqsUpTo(SimpleBlocks, MaxBlocks) \ {<<>>}

InitRoundTrip ==
    /\ pc = "parsing"
    /\ source \in SimpleDocs
    /\ adf = None
    /\ markdown = <<>> /\ call_depth = 0
    /\ value = None /\ field_name = <<>> /\ outcome = None
    /\ BuilderIdle
    /\ MarksIdle /\ SearchIdle

(* markdown_to_adf: the loop takes the next event of the parser *)
ParseEvent ==
    /\ pc = "parsing"
    /\ Len(events) < Len(ParserOfBlocks(source))
    /\ LET ev == ParserOfBlocks(source)[Len(events) + 1]
           b == handle_event(CurrentBuilder, ev)
       IN /\ events' = Append(events, ev)
          /\ stack' = b.stack
          /\ doc_content' = b.doc_content
          /\ marks' = b.marks
          /\ in_table_head' = b.in_table_head
    /\ UNCHANGED <<pc, inputVars, renderVars, markVars, searchVars>>

(* adf = text_to_adf(md): the parser is exhausted, the document is returned *)
TextToAdf ==
    /\ pc = "parsing"
    /\ Len(events) = Len(ParserOfBlocks(source))
    /\ adf' = build_doc(doc_content)
    /\ pc' = "built"
    /\ UNCHANGED <<source, markdown, call_depth, inputVars, builderVars, markVars,
        searchVars>>

(* markdown = adf_to_markdown(adf) *)
AdfToMarkdown ==
    /\ pc = "built"
    /\ markdown' = adf_to_markdown(adf)
    /\ pc' = "rendered"
    /\ UNCHANGED <<source, adf, call_depth, inputVars, builderVars, markVars,
        searchVars>>

NextRoundTrip == ParseEvent \/ TextToAdf \/ AdfToMarkdown

SpecRoundTrip == InitRoundTrip /\ [][NextRoundTrip]_vars

-----------------------------------------------------------------------------
(* The renderer applied to one JSON value: convert_block_node at depth 0,  *)
(* convert_inline_node, and adf_to_markdown with the value as document.    *)
(* The values are tables of up to MaxRows rows, well-formed and malformed   *)
(* nodes of every kind, and documents of up to MaxDocBlocks blocks.        *)
MaxRows == 3

WithContent(type, children) ==
    JObj([type |-> JStr(type), content |-> JArr(children)])

TextParagraph(s) == WithContent(S_paragraph, <<TextNode(s)>>)

(* table cells: header and plain cells, a pipe in the text, a hard break   *)
(* between two texts, two paragraphs, no content key, a colspan of 2       *)
CellChoices ==
    {WithContent(S_tableHeader, <<TextParagraph(<<"A">>)>>),
     WithContent(S_tableCell, <<TextParagraph(<<"1">>)>>),
     WithContent(S_tableCell, <<TextParagraph(<<"a", "|", "b">>)>>),
     WithContent(S_tableCell,
         <<WithContent(S_paragraph,
               <<TextNode(<<"a">>), Node(S_hardBreak), TextNode(<<"b">>)>>)>>),
     WithContent(S_tableCell, <<TextParagraph(<<"p">>), TextParagraph(<<"q">>)>>),
     Node(S_tableCell),
     JObj([type |-> JStr(S_tableCell), attrs |-> JObj([colspan |-> JInt(2)]),
           content |-> JArr(<<TextParagraph(<<"w">>)>>)])}

(* rows of one cell of each choice, a row of two cells, an empty row, and  *)
(* a row without a content array                                           *)
RowChoices ==
    {WithContent(S_tableRow, <<c>>) : c \in CellChoices}
    \cup {WithContent(S_tableRow,
                      <<WithContent(S_tableHeader, <<TextParagraph(<<"A">>)>>),
                        WithContent(S_tableCell, <<TextParagraph(<<"a", "|", "b">>)>>)>>),
          WithContent(S_tableRow, <<>>), Node(S_tableRow)}

TableChoices ==
    {WithContent(S_table, rows) : rows \in SeqsUpTo(RowChoices, MaxRows)}
    \cup {Node(S_table)}

InlineKinds ==
    {S_text, S_hardBreak, S_mention, S_emoji, S_inlineCard, S_date, S_status,
     S_mediaInline, S_placeholder}

BlockKinds ==
    {S_paragraph, S_heading, S_bulletList, S_orderedList, S_listItem, S_codeBlock,
     S_blockquote, S_rule, S_panel, S_table, S_mediaSingle, S_mediaGroup, S_expand,
     S_nestedExpand, S_taskList, S_taskItem, S_decisionList, S_decisionItem,
     S_layoutSection, S_layoutColumn, S_embedCard, S_bodiedExtension,
     S_multiBodiedExtension, S_extensionFrame}

UnknownKinds == {<<"z">>, S_tableRow, <<>>}

(* attrs with every key the renderer reads, none of the type it reads *)
WrongAttrs ==
    JObj([key \in {"alt", "color", "colspan", "extensionType", "href", "id",
                   "language", "level", "panelType", "shortName", "state", "text",
                   "timestamp", "title", "type", "url"} |-> JBool(TRUE)])

(* a node of each kind: without attrs and content, with attrs and content  *)
(* that are no object and no array, with attrs of wrong-typed members, and *)
(* with children of which some render and some do not                      *)
ShapesOf(type) ==
    {Node(type),
     JObj([type |-> JStr(type), attrs |-> JStr(<<"a">>), content |-> JStr(<<"c">>),
           text |-> JInt(1), marks |-> JStr(<<"m">>)]),
     JObj([type |-> JStr(type), attrs |-> WrongAttrs,
           content |-> JArr(<<Null, Node(<<"z">>)>>)]),
     JObj([type |-> JStr(type), text |-> JStr(<<"t">>),
           content |-> JArr(<<TextParagraph(<<"k">>), Null, TextNode(<<"i">>)>>)])}

(* values that are no node: no object, no type, a type that is no string *)
TypelessValues ==
    {Null, JBool(TRUE), JInt(1), JStr(S_text), JArr(<<TextNode(<<"t">>)>>),
     JObj([content |-> JArr(<<TextParagraph(<<"k">>)>>)]),
     JObj([type |-> JInt(1), content |-> JArr(<<TextParagraph(<<"k">>)>>)]),
     JObj([type |-> Null, text |-> JStr(<<"t">>)])}

NodeValues ==
    TypelessValues
    \cup UNION {ShapesOf(type) : type \in InlineKinds \cup BlockKinds \cup UnknownKinds}

(* top-level blocks: two that render, one whose text has three line feeds  *)
(* in a row, one that ends in a line feed, and three that render to None   *)
MaxDocBlocks == 3

DocBlockChoices ==
    {TextParagraph(<<"a">>), Node(S_rule),
     TextParagraph(<<"c", "\n", "\n", "\n", "d">>),
     TextParagraph(<<"e", "\n">>),
     Null, Node(S_paragraph), TextNode(<<"i">>)}

(* documents of up to MaxDocBlocks blocks, with and without the envelope *)
DocChoices ==
    {JObj([type |-> JStr(S_doc), version |-> JInt(1), content |-> JArr(blocks)]) :
        blocks \in SeqsUpTo(DocBlockChoices, MaxDocBlocks)}
    \cup {JObj([type |-> JStr(S_doc), version |-> JInt(1)]),
          JObj([type |-> JStr(S_doc), version |-> JInt(1), content |-> JStr(<<"a">>)]),
          JObj([type |-> JStr(S_doc), version |-> JInt(1), content |-> Null]),
          JObj([content |-> JArr(<<TextParagraph(<<"a">>)>>)])}

(* headings of every level value: no attrs, attrs without level, a string, *)
(* a float, a negative integer, 0 to 8, and an integer above i64::MAX;     *)
(* with a text, a blank text, an empty text, no child and no content       *)
LevelChoices ==
    {None, Some(JStr(<<"2">>)), Some(JFloat(2, 0)), Some(JInt(-1)), Some(JBigU64(<<>>))}
    \cup {Some(JInt(n)) : n \in 0..8}

HeadingTexts == {<<"T">>, <<"a", " ", "b">>, <<" ">>, <<" ", "\n">>, <<>>}

HeadingOf(level, children) ==
    IF level = None THEN WithContent(S_heading, children)
    ELSE JObj([type |-> JStr(S_heading), attrs |-> JObj([level |-> level.v]),
               content |-> JArr(children)])

HeadingChoices ==
    {HeadingOf(level, <<TextNode(t)>>) : level \in LevelChoices, t \in HeadingTexts}
    \cup {HeadingOf(level, <<>>) : level \in LevelChoices}
    \cup {JObj([type |-> JStr(S_heading), attrs |-> JObj([other |-> JInt(3)]),
                content |-> JArr(<<TextNode(<<"T">>)>>)]),
          JObj([type |-> JStr(S_heading), attrs |-> JObj([level |-> JInt(3)])])}
    \cup {TextParagraph(t) : t \in HeadingTexts}
    \cup {WithContent(S_paragraph, <<>>)}

(* one-row tables of one or two cells with every kind of colspan: absent, *)
(* 0 to MaxSpan, negative, a string, a float, a boolean                    *)
MaxSpan == 3

SpanChoices ==
    {None, Some(JInt(-1)), Some(JStr(<<"2">>)), Some(JFloat(2, 0)), Some(JBool(TRUE))}
    \cup {Some(JInt(n)) : n \in 0..MaxSpan}

SpanCell(span, text) ==
    IF span = None THEN WithContent(S_tableCell, <<TextParagraph(text)>>)
    ELSE JObj([type |-> JStr(S_tableCell), attrs |-> JObj([colspan |-> span.v]),
               content |-> JArr(<<TextParagraph(text)>>)])

SpanTableChoices ==
    {WithContent(S_table, <<WithContent(S_tableRow, <<SpanCell(s, <<"a">>)>>)>>) :
        s \in SpanChoices}
    \cup {WithContent(S_table,
              <<WithContent(S_tableRow, <<SpanCell(s, <<"a">>), SpanCell(t, <<"b">>)>>)>>) :
          s \in SpanChoices, t \in SpanChoices}

(* date nodes. The timestamps are the first and the last millisecond of   *)
(* days around the ends of months, of leap and common years and of the     *)
(* centuries, up to the first day of the year 3000; negative and too large *)
(* numbers; strings that are no number; and nodes without a timestamp      *)
MsPerDay == 1000 * SecsPerDay

DayChoices ==
    {0, 1, 30, 31, 58, 59, 364, 365, 789, 790, 1095, 1096, 10956, 10957, 11016,
     11017, 19722, 19723, 19782, 19783, 47540, 47541, 376199, 376200}

(* the decimal digits of day * MsPerDay + hi * 100000 + lo *)
MsChars(day, hi, lo) ==
    IF day * 864 + hi = 0 THEN NatToChars(lo)
    ELSE NatToChars(day * 864 + hi) \o ZeroPad(lo, 5)

TimestampChoices ==
    {MsChars(day, 0, 0) : day \in DayChoices}
    \cup {MsChars(day, 863, 99999) : day \in DayChoices}
    \cup {<<"-", "1">>, <<"-", "9", "9", "9">>, <<"-", "1", "0", "0", "0">>,
          <<"-", "8", "6", "4", "0", "0", "0", "0", "0">>,
          <<"-">> \o I64MinDigits,
          MAX_SECS \o <<"0", "0", "0">>, MAX_SECS \o <<"9", "9", "9">>,
          <<"3", "2", "5", "0", "3", "6", "8", "0", "0", "0", "1", "0", "0", "0">>,
          <<"9", "9", "9", "9", "9", "9", "9", "9", "9", "9", "9", "9", "9", "9">>,
          I64MaxDigits,
          <<"9", "2", "2", "3", "3", "7", "2", "0", "3", "6", "8", "5", "4", "7", "7",
            "5", "8", "0", "8">>,
          <<"a", "b", "c">>, <<"1", "2", "a">>, <<" ", "1">>, <<"1", ".", "5">>,
          <<"2", "0", "2", "4", "-", "0", "1", "-", "0", "1">>, <<"-">>, <<>>}

DateNode(ts) == JObj([type |-> JStr(S_date), attrs |-> JObj([timestamp |-> JStr(ts)])])

DateChoices ==
    {DateNode(ts) : ts \in TimestampChoices}
    \cup {Node(S_date), JObj([type |-> JStr(S_date), attrs |-> JObj([other |-> JInt(1)])]),
          JObj([type |-> JStr(S_date), attrs |-> JObj([timestamp |-> JInt(86400000)])])}

(* documents of one block that carries a link target: a text with a link   *)
(* mark, an inlineCard in a paragraph, an embedCard; the targets have the  *)
(* three dangerous schemes in lower and mixed case, and harmless ones      *)
UrlChoices ==
    {S_javascript \o <<"x">>, <<"J", "a", "v", "a", "S", "c", "r", "i", "p", "t", ":", "x">>,
     S_vbscript \o <<"x">>, <<"V", "B", "S", "C", "R", "I", "P", "T", ":", "x">>,
     S_data \o <<"x">>, <<"D", "a", "t", "a", ":", "x">>,
     <<"h", "t", "t", "p", "s", ":", "/", "/", "a">>, <<"d", "a", "t", "a">>, <<>>}

LinkedText(url) ==
    JObj([type |-> JStr(S_text), text |-> JStr(<<"t">>),
          marks |-> JArr(<<JObj([type |-> JStr(S_link),
                                 attrs |-> JObj([href |-> JStr(url)])])>>)])

CardNode(type, url) == JObj([type |-> JStr(type), attrs |-> JObj([url |-> JStr(url)])])

LinkBlockChoices ==
    {WithContent(S_paragraph, <<LinkedText(url)>>) : url \in UrlChoices}
    \cup {WithContent(S_paragraph, <<TextNode(<<"s", " ">>), CardNode(S_inlineCard, url)>>) :
            url \in UrlChoices}
    \cup {CardNode(S_embedCard, url) : url \in UrlChoices}
    \cup {WithContent(S_blockquote, <<WithContent(S_paragraph, <<CardNode(S_inlineCard, url)>>)>>) :
            url \in UrlChoices}

LinkDocChoices ==
    {JObj([type |-> JStr(S_doc), version |-> JInt(1), content |-> JArr(<<block>>)]) :
        block \in LinkBlockChoices}

(* documents of one codeBlock: with and without a language, the body in    *)
(* one or two text children, with and without a mark; the bodies have      *)
(* single and repeated blank lines and lines of spaces                     *)
CodeBodies ==
    {<<"a">>, <<"a", "\n">>, <<"a", "\n", "b">>, <<"a", "\n", "\n", "b">>,
     <<"a", "\n", "\n", "\n", "b">>, <<"a", "\n", " ", " ", "\n", "b">>,
     <<"\n", "\n", "a">>, <<" ", " ", "a">>, <<>>}

CodeText(body, marked_up) ==
    IF marked_up
    THEN JObj([type |-> JStr(S_text), text |-> JStr(body),
               marks |-> JArr(<<JObj([type |-> JStr(S_strong)])>>)])
    ELSE TextNode(body)

CodeBlockOf(lang, children) ==
    IF lang = None THEN WithContent(S_codeBlock, children)
    ELSE JObj([type |-> JStr(S_codeBlock), attrs |-> JObj([language |-> JStr(lang.v)]),
               content |-> JArr(children)])

CodeBlockChoices ==
    {CodeBlockOf(lang, <<CodeText(body, m)>>) :
        lang \in {None, Some(<<"r", "s">>)}, body \in CodeBodies, m \in BOOLEAN}
    \cup {CodeBlockOf(None, <<TextNode(<<"x", "\n">>), CodeText(body, TRUE)>>) :
            body \in CodeBodies}

CodeDocChoices ==
    {JObj([type |-> JStr(S_doc), version |-> JInt(1), content |-> JArr(<<block>>)]) :
        block \in CodeBlockChoices}

RenderValues ==
    TableChoices \cup NodeValues \cup DocChoices \cup HeadingChoices
    \cup SpanTableChoices \cup DateChoices \cup LinkDocChoices \cup CodeDocChoices

InitRender ==
    /\ pc = "start"
    /\ value \in RenderValues
    /\ field_name = <<>> /\ outcome = None
    /\ BuilderIdle /\ RenderIdle /\ MarksIdle /\ SearchIdle

(* convert_block_node(&value, 0) *)
ConvertBlockNode ==
    /\ pc = "start"
    /\ outcome' = convert_block_node(value, 0)
    /\ pc' = "block"
    /\ UNCHANGED <<value, field_name, builderVars, renderVars, markVars,
        searchVars>>

(* convert_inline_node(&value) *)
ConvertInlineNode ==
    /\ pc = "start"
    /\ outcome' = Some(convert_inline_node(value))
    /\ pc' = "inline"
    /\ UNCHANGED <<value, field_name, builderVars, renderVars, markVars,
        searchVars>>

(* adf_to_markdown(&value) *)
RenderDocument ==
    /\ pc = "start"
    /\ markdown' = adf_to_markdown(value)
    /\ pc' = "document"
    /\ UNCHANGED <<inputVars, builderVars, source, adf, call_depth, markVars,
        searchVars>>

NextRender == ConvertBlockNode \/ ConvertInlineNode \/ RenderDocument

SpecRender == InitRender /\ [][NextRender]_vars

-----------------------------------------------------------------------------
(* One call of convert_block_node on a value at a depth around the limit.  *)
(* The values are the well-formed and malformed nodes of every kind, among *)
(* them list items and lists whose children go through the catch-all arm   *)
(* one level deeper, and bullet and ordered lists of plain items.          *)
GuardDepths ==
    {0, 1, MAX_DEPTH - 1, MAX_DEPTH, MAX_DEPTH + 1, MAX_DEPTH + 2, 2 * MAX_DEPTH}

(* lists of up to MaxItems items, of which some render to nothing: an     *)
(* item without content and an item whose paragraph is blank               *)
MaxItems == 3

ItemChoices ==
    {WithContent(S_listItem, <<TextParagraph(<<"a">>)>>),
     WithContent(S_listItem, <<TextParagraph(<<"b", "c">>)>>),
     WithContent(S_listItem, <<TextParagraph(<<" ">>)>>),
     Node(S_listItem)}

ListChoices ==
    {WithContent(type, items) :
        type \in {S_bulletList, S_orderedList}, items \in SeqsUpTo(ItemChoices, MaxItems)}

GuardValues ==
    NodeValues \cup ListChoices
    \cup {TextParagraph(<<"a">>),
          WithContent(S_listItem, <<WithContent(S_blockquote, <<TextParagraph(<<"q">>)>>)>>),
          WithContent(S_listItem,
              <<TextParagraph(<<"p">>),
                WithContent(S_bulletList,
                    <<WithContent(S_listItem, <<TextParagraph(<<"n">>), Node(S_rule)>>)>>)>>)}

InitGuard ==
    /\ pc = "start"
    /\ value \in GuardValues
    /\ call_depth \in GuardDepths
    /\ field_name = <<>> /\ outcome = None
    /\ source = <<>> /\ adf = None /\ markdown = <<>>
    /\ BuilderIdle /\ MarksIdle /\ SearchIdle

(* convert_block_node(&value, depth) *)
GuardedConvert ==
    /\ pc = "start"
    /\ outcome' = convert_block_node(value, call_depth)
    /\ pc' = "guarded"
    /\ UNCHANGED <<value, field_name, builderVars, renderVars, markVars,
        searchVars>>

NextGuard == GuardedConvert

SpecGuard == InitGuard /\ [][NextGuard]_vars

-----------------------------------------------------------------------------
(* Build, then render: markdown_to_adf on a well-nested stream of up to    *)
(* MaxSpanEvents events of a paragraph with strong, emphasis and           *)
(* strikethrough around texts and inline code, then adf_to_markdown on the *)
(* document built.                                                         *)
MaxSpanEvents == 7

SpanStartTags == {Tag("Paragraph"), Tag("Strong"), Tag("Emphasis"), Tag("Strikethrough")}

InitCodeSpan ==
    /\ pc = "parsing"
    /\ value = None /\ field_name = <<>> /\ outcome = None
    /\ BuilderIdle /\ RenderIdle /\ MarksIdle /\ SearchIdle

(* the loop takes event ev *)
ConsumeSpan(ev) ==
    /\ pc = "parsing"
    /\ Len(events) < MaxSpanEvents
    /\ LET b == handle_event(CurrentBuilder, ev) IN
        /\ events' = Append(events, ev)
        /\ stack' = b.stack
        /\ doc_content' = b.doc_content
        /\ marks' = b.marks
        /\ in_table_head' = b.in_table_head
    /\ UNCHANGED <<pc, inputVars, renderVars, markVars, searchVars>>

(* the paragraph is the outermost tag, the formatting tags are inside it *)
SpanStart ==
    \E tag \in SpanStartTags :
        /\ (tag = Tag("Paragraph")) = (OpenTags(events) = <<>>)
        /\ ConsumeSpan(Start(tag))

SpanEnd ==
    /\ OpenTags(events) # <<>>
    /\ ConsumeSpan(End(Tag(Last(OpenTags(events)).t)))

SpanText == OpenTags(events) # <<>> /\ ConsumeSpan(Text(<<"y">>))

SpanCode == OpenTags(events) # <<>> /\ ConsumeSpan(Code(<<"x">>))

(* adf = markdown_to_adf(..): the parser is exhausted *)
SpanBuilt ==
    /\ pc = "parsing"
    /\ OpenTags(events) = <<>>
    /\ adf' = build_doc(doc_content)
    /\ pc' = "built"
    /\ UNCHANGED <<source, markdown, call_depth, inputVars, builderVars, markVars,
        searchVars>>

(* markdown = adf_to_markdown(&adf) *)
SpanRendered ==
    /\ pc = "built"
    /\ markdown' = adf_to_markdown(adf)
    /\ pc' = "rendered"
    /\ UNCHANGED <<source, adf, call_depth, inputVars, builderVars, markVars,
        searchVars>>

NextCodeSpan ==
    \/ SpanStart \/ SpanEnd \/ SpanText \/ SpanCode \/ SpanBuilt \/ SpanRendered

SpecCodeSpan == InitCodeSpan /\ [][NextCodeSpan]_vars
-----------------------------------------------------------------------------
(* normalize_whitespace applied to a text, then to its own output. The     *)
(* texts are the strings of up to MaxTextLen characters over a letter, a   *)
(* space, a line feed and a carriage return.                               *)
MaxTextLen == 5

TextChars == {"a", " ", "\n", "\r"}

Texts == UNION {[1..n -> TextChars] : n \in 0..MaxTextLen}

InitNormalize ==
    /\ pc = "start"
    /\ source \in Texts
    /\ markdown = <<>> /\ adf = None /\ call_depth = 0
    /\ value = None /\ field_name = <<>> /\ outcome = None
    /\ BuilderIdle /\ MarksIdle /\ SearchIdle

(* normalize_whitespace(&source) *)
NormalizeWhitespace ==
    /\ pc = "start"
    /\ markdown' = normalize_whitespace(source)
    /\ pc' = "normalized"
    /\ UNCHANGED <<inputVars, builderVars, source, adf, call_depth, markVars,
        searchVars>>

(* normalize_whitespace(&markdown), the output of the first call *)
NormalizeAgain ==
    /\ pc = "normalized"
    /\ outcome' = Some(normalize_whitespace(markdown))
    /\ pc' = "renormalized"
    /\ UNCHANGED <<value, field_name, builderVars, renderVars, markVars,
        searchVars>>

NextNormalize == NormalizeWhitespace \/ NormalizeAgain

SpecNormalize == InitNormalize /\ [][NextNormalize]_vars

-----------------------------------------------------------------------------
(* The recursion of the block renderer on deeply nested containers, one    *)
(* call per step. The document has one top-level block: NestDepth          *)
(* containers, each the only child of the one around it, around a          *)
(* paragraph "Q"; source lists the kinds of the containers from the        *)
(* outermost in. stack holds one frame per call in progress: the type of   *)
(* its node, the depth argument it received, and the function entered      *)
(* (via "block": convert_block_node, "list": convert_bullet_list or        *)
(* convert_ordered_list, "item": convert_list_item, "paragraph":           *)
(* convert_paragraph). value is the node of the innermost call with its    *)
(* child cut below the type, outcome the value the innermost finished call *)
(* returned.                                                               *)
NestDepth == 60

ContainerPatterns ==
    {<<S_blockquote>>, <<S_panel>>, <<S_expand>>, <<S_layoutColumn>>,
     <<S_listItem>>, <<S_tableCell>>, <<S_taskItem>>, <<S_bodiedExtension>>,
     <<<<"z">>>>, <<S_bulletList, S_listItem>>, <<S_orderedList, S_listItem>>,
     <<S_listItem, S_blockquote>>}

(* the kinds of NestDepth nested containers, repeating the pattern *)
ContainerPaths ==
    {[i \in 1..NestDepth |-> pattern[((i - 1) % Len(pattern)) + 1]] :
        pattern \in ContainerPatterns}

(* the node at nesting level i of the document *)
NodeAt(path, i) ==
    IF i > Len(path) THEN TextParagraph(<<"Q">>)
    ELSE WithContent(path[i],
                     <<IF i + 1 > Len(path) THEN TextParagraph(<<"Q">>)
                       ELSE Node(path[i + 1])>>)

CallFrame(type, depth, via) == [type |-> type, depth |-> depth, via |-> via]

IsListType(type) == type \in {S_bulletList, S_orderedList}

(* the only child of the node, or None when its content is not an array of *)
(* one element                                                             *)
OnlyChild(node) ==
    LET c == as_array(Get(node, "content")) IN
    IF c = None THEN None
    ELSE IF Len(c.a) # 1 THEN None
    ELSE Some(c.a[1])

(* the call a frame makes for its only child: convert_list_item matches on *)
(* the child type and passes depth + 1, the two list converters call       *)
(* convert_list_item with their own depth, every other converter calls     *)
(* convert_block_node with depth 0                                         *)
ChildCall(frame, child) ==
    LET child_type == attr_str_or(child, "type", <<>>) IN
    IF frame.via = "item" \/ (frame.via = "block" /\ frame.type = S_listItem)
    THEN CASE child_type = S_paragraph -> CallFrame(child_type, frame.depth, "paragraph")
           [] IsListType(child_type) -> CallFrame(child_type, frame.depth + 1, "list")
           [] OTHER -> CallFrame(child_type, frame.depth + 1, "block")
    ELSE IF frame.via = "list" \/ IsListType(frame.type)
    THEN CallFrame(child_type, frame.depth, "item")
    ELSE CallFrame(child_type, 0, "block")

(* the function of the frame applied to the node *)
CallOf(frame, node) ==
    CASE frame.via = "paragraph" -> convert_paragraph(node)
      [] frame.via = "item" -> convert_list_item(node, frame.depth)
      [] frame.via = "list" ->
            IF frame.type = S_orderedList
            THEN convert_ordered_list(node, frame.depth)
            ELSE convert_bullet_list(node, frame.depth)
      [] OTHER -> convert_block_node(node, frame.depth)

(* a node that the call of child_frame renders to the returned value: a    *)
(* paragraph of the returned text, inside a listItem for a call of         *)
(* convert_list_item; the line feed that convert_list_item puts before a   *)
(* nested list is part of the text                                         *)
Returned(child_frame, result) ==
    IF result = None THEN Node(S_paragraph)
    ELSE CASE child_frame.via = "item" ->
                 WithContent(S_listItem, <<TextParagraph(result.v)>>)
           [] child_frame.via = "list" -> TextParagraph(<<"\n">> \o result.v)
           [] OTHER -> TextParagraph(result.v)

(* the frames enter their nodes without an argument of their own kind      *)
DescendsInto(frame, node) ==
    /\ frame.via # "paragraph"
    /\ ~(frame.via = "block" /\ frame.depth > MAX_DEPTH)
    /\ OnlyChild(node) # None
    /\ frame.via = "block" => frame.type \in
            {S_blockquote, S_panel, S_expand, S_layoutColumn, S_listItem,
             S_tableCell, S_taskItem, S_bodiedExtension, <<"z">>,
             S_bulletList, S_orderedList}

InitDepth ==
    /\ pc = "call"
    /\ source \in ContainerPaths
    /\ value = NodeAt(source, 1)
    /\ stack = <<CallFrame(source[1], 0, "block")>>
    /\ outcome = None
    /\ field_name = <<>>
    /\ events = <<>> /\ doc_content = <<>> /\ marks = <<>> /\ in_table_head = FALSE
    /\ adf = None /\ markdown = <<>> /\ call_depth = 0
    /\ MarksIdle /\ SearchIdle

(* the innermost call starts: it returns at once (the depth guard, or a    *)
(* node without an only child), or calls the converter of its child        *)
CallBlock ==
    /\ pc = "call"
    /\ IF DescendsInto(Last(stack), value)
       THEN /\ stack' = Append(stack, ChildCall(Last(stack), OnlyChild(value).v))
            /\ value' = NodeAt(source, Len(stack) + 1)
            /\ UNCHANGED <<pc, outcome>>
       ELSE /\ outcome' = CallOf(Last(stack), value)
            /\ pc' = "return"
            /\ UNCHANGED <<stack, value>>
    /\ UNCHANGED <<field_name, events, doc_content, marks, in_table_head,
                   renderVars, markVars, searchVars>>

(* the innermost call has returned: the call around it finishes with the   *)
(* returned value in the place of its child                                *)
ReturnBlock ==
    /\ pc = "return"
    /\ Len(stack) > 1
    /\ stack' = Front(stack)
    /\ outcome' = CallOf(Last(Front(stack)),
                         WithContent(Last(Front(stack)).type,
                                     <<Returned(Last(stack), outcome)>>))
    /\ UNCHANGED <<pc, value, field_name, events, doc_content, marks, in_table_head,
                   renderVars, markVars, searchVars>>

(* adf_to_markdown: the top-level block has returned *)
FinishDocument ==
    /\ pc = "return"
    /\ Len(stack) = 1
    /\ stack' = <<>>
    /\ markdown' = adf_to_markdown(WithContent(S_doc, <<Returned(Last(stack), outcome)>>))
    /\ pc' = "rendered"
    /\ UNCHANGED <<value, outcome, field_name, events, doc_content, marks,
                   in_table_head, source, adf, call_depth, markVars,
                       searchVars>>

NextDepth == CallBlock \/ ReturnBlock \/ FinishDocument

SpecDepth == InitDepth /\ [][NextDepth]_vars

----------------------------------------------------------------------------
(* Claims about validate_adf and process_adf_input (checked under Spec) *)

IsObject(v) == v.k = "obj"
HasKey(v, key) == v.k = "obj" /\ key \in DOMAIN v.o
TypeIsDoc(v) == Get(v, "type") = JStr(S_doc)
IsInteger(v) == v.k \in {"int", "u64"}
IsJsonNumber(v) == v.k \in {"int", "u64", "float"}

(* type is the string "doc", version the integer 1, content an array *)
IsEnvelope(v) ==
    /\ IsObject(v)
    /\ TypeIsDoc(v)
    /\ Get(v, "version") = JInt(1)
    /\ Get(v, "content").k = "arr"

Failed(res) == res # None /\ ~res.ok
FailedWith(res, msg) == res = Err(msg)
FailedStarting(res, prefix) == Failed(res) /\ StartsWith(res.msg, prefix)

(* C1: validate_adf succeeds on every object whose type is "doc", whose     *)
(* version is the integer 1 and whose content is an array, whatever the    *)
(* array holds: the nodes inside are not inspected.                        *)
C1_EnvelopeAccepted ==
    (pc = "validated" /\ IsEnvelope(value)) => outcome = OkUnit

(* C1 witness: an accepted document whose content holds ill-formed nodes *)
C1_Witness ==
    /\ pc = "validated"
    /\ IsEnvelope(value)
    /\ \E i \in 1..Len(value.o.content.a) : value.o.content.a[i].k # "obj"
    /\ outcome = OkUnit

(* C2 as stated: with type "doc", an absent or non-integer version gives   *)
(* the missing-'version' error and every integer other than 1 gives the    *)
(* 'version must be 1' error.                                              *)
C2_AsStated ==
    (pc = "validated" /\ IsObject(value) /\ TypeIsDoc(value)) =>
        LET version == Get(value, "version") IN
        /\ ~IsInteger(version) => FailedWith(outcome, M_missing_version)
        /\ (IsInteger(version) /\ version # JInt(1)) =>
               FailedStarting(outcome, M_version_must_be_1)

(* C2 amended: with type "doc", a version that is absent, not an integer   *)
(* (float 1.0, string "1") or an integer above i64::MAX gives the          *)
(* missing-'version' error; an integer that fits i64 and is not 1 gives    *)
(* the 'version must be 1' error naming it; nothing but the integer 1      *)
(* passes the version check.                                               *)
C2_VersionErrors ==
    (pc = "validated" /\ IsObject(value) /\ TypeIsDoc(value)) =>
        LET version == Get(value, "version") IN
        /\ version.k # "int" => FailedWith(outcome, M_missing_version)
        /\ (version.k = "int" /\ version.n # 1) =>
               FailedWith(outcome, M_version_must_be_1 \o IntToChars(version.n))
        /\ version # JInt(1) => Failed(outcome)

(* C2 witness: the float 1.0 rejected as a missing version *)
C2_Witness ==
    /\ pc = "validated"
    /\ TypeIsDoc(value)
    /\ Get(value, "version") = JFloat(1, 0)
    /\ Get(value, "content") = JArr(<<>>)
    /\ FailedWith(outcome, M_missing_version)

(* C3 as stated: the missing-'type' error is given only when the key is    *)
(* absent; a type present with any value other than the string "doc"       *)
(* gives the wrong-type error.                                             *)
C3_AsStated ==
    (pc = "validated" /\ IsObject(value)) =>
        /\ FailedWith(outcome, M_missing_type) => ~HasKey(value, "type")
        /\ (HasKey(value, "type") /\ ~TypeIsDoc(value)) =>
               FailedStarting(outcome, M_type_must_be_doc)

(* C3 amended: validate_adf on an object fails with the missing-'type'     *)
(* error exactly when the "type" key is absent or its value is not a       *)
(* string, and with the wrong-type error, naming the value, when it is a   *)
(* string other than "doc".                                                *)
C3_TypeErrors ==
    (pc = "validated" /\ IsObject(value)) =>
        LET type == Get(value, "type") IN
        /\ FailedWith(outcome, M_missing_type) <=> type.k # "str"
        /\ (type.k = "str" /\ type.s # S_doc) =>
               FailedWith(outcome, M_type_must_be_doc \o type.s \o <<"'">>)

(* C3 witness: a type that is present but not a string *)
C3_Witness ==
    /\ pc = "validated"
    /\ HasKey(value, "type")
    /\ Get(value, "type") = JInt(1)
    /\ FailedWith(outcome, M_missing_type)

(* C4 as stated: an accepted document carries exactly the three keys type, *)
(* version and content, with the stated types.                             *)
C4_AsStated ==
    (pc = "validated" /\ outcome = OkUnit) =>
        /\ IsEnvelope(value)
        /\ DOMAIN value.o = {"type", "version", "content"}

(* C4 amended: a document is accepted by validate_adf only if it is an     *)
(* object carrying the three keys type, version and content with the       *)
(* stated types; a key besides these three is ignored, so an object with   *)
(* type "doc", version 1, a content array and an additional key is         *)
(* accepted.                                                               *)
C4_AcceptedOnlyEnvelope ==
    pc = "validated" =>
        /\ outcome = OkUnit => IsEnvelope(value)
        /\ (IsEnvelope(value) /\ HasKey(value, "extra")) => outcome = OkUnit

(* C4 witness: an accepted document with a fourth key *)
C4_Witness ==
    /\ pc = "validated"
    /\ outcome = OkUnit
    /\ HasKey(value, "extra")
    /\ Cardinality(DOMAIN value.o) = 4

EmptyDoc ==
    JObj([type |-> JStr(S_doc), version |-> JInt(1), content |-> JArr(<<>>)])

C6_ErrorNamesField ==
    (pc = "processed" /\ Failed(outcome)) =>
        /\ Contains(outcome.msg, field_name)
        /\ (IsJsonNumber(value) \/ value.k \in {"bool", "arr"}) =>
               Contains(outcome.msg, Tail(Front(M_must_be_string_or_adf)))

----------------------------------------------------------------------------
(* Claims about the builder (checked under SpecBuild) *)

(* the loop, event by event, and the fold over the whole stream agree *)
BuildAgrees == pc = "built" => outcome = markdown_events_to_adf(events)

(* C7: for every sequence of parse events, balanced or not, text_to_adf    *)
(* returns {type: "doc", version: 1, content: <array>}, which validate_adf *)
(* accepts; no event gives content [].                                     *)
C7_AlwaysValidDoc ==
    pc = "built" =>
        /\ IsObject(outcome)
        /\ DOMAIN outcome.o = {"type", "version", "content"}
        /\ IsEnvelope(outcome)
        /\ validate_adf(outcome) = OkUnit
        /\ events = <<>> => outcome = EmptyDoc

(* C7 witness: a document returned with a frame still open, after a stream *)
(* that began with an end tag                                              *)
C7_Witness ==
    /\ pc = "built"
    /\ Len(events) = MaxEvents
    /\ events[1].e = "End"
    /\ stack # <<>>
    /\ validate_adf(outcome) = OkUnit

IsPlainParagraphStream(evs) ==
    /\ Len(evs) = 3
    /\ evs[1] = Start(Tag("Paragraph"))
    /\ evs[2].e = "Text"
    /\ evs[3] = End(Tag("Paragraph"))

(* C8: for the stream paragraph start, text s, paragraph end, the document *)
(* has exactly one top-level node, a paragraph whose content is exactly    *)
(* one text node with text s and no marks key.                             *)
C8_PlainParagraph ==
    (pc = "built" /\ IsPlainParagraphStream(events)) =>
        outcome.o.content =
            JArr(<<JObj([type |-> JStr(S_paragraph),
                         content |-> JArr(<<JObj([type |-> JStr(S_text),
                                                  text |-> JStr(events[2].text)])>>)])>>)

(* C8 witness: the plain text "Hi x" built *)
C8_Witness ==
    /\ pc = "built"
    /\ IsPlainParagraphStream(events)
    /\ events[2].text = <<"H", "i", " ", "x">>
    /\ Len(outcome.o.content.a) = 1

(* the tags that change the active marks, and the mark type of each *)
FormattingTags == {"Emphasis", "Strong", "Strikethrough", "Link", "Image"}

MarkTypeOf(tag) ==
    CASE tag.t = "Emphasis" -> S_em
      [] tag.t = "Strong" -> S_strong
      [] tag.t = "Strikethrough" -> S_strike
      [] tag.t \in {"Link", "Image"} -> S_link

(* the mark that the start of a formatting tag makes active *)
MarkOf(tag) ==
    IF tag.t \in {"Link", "Image"}
    THEN JObj([type |-> JStr(S_link), attrs |-> JObj([href |-> JStr(tag.dest_url)])])
    ELSE JObj([type |-> JStr(MarkTypeOf(tag))])

(* the list without its last mark of the type; the list when it has none *)
WithoutLastOfType(mk, type) ==
    LET hits == {i \in 1..Len(mk) : Get(mk[i], "type") = JStr(type)} IN
    IF hits = {} THEN mk
    ELSE [i \in 1..(Len(mk) - 1) |->
             IF \E h \in hits : h > i THEN mk[i] ELSE mk[i + 1]]

(* the loop has just taken an event *)
EventTaken ==
    /\ pc = "parsing" /\ pc' = "parsing"
    /\ Len(events') = Len(events) + 1

(* the node that a text or inline-code event added: the last child of the  *)
(* top frame, or the only child of a new top-level paragraph               *)
InlineAdded(st, dc) ==
    IF st # <<>> THEN Last(Last(st).children) ELSE Get(Last(dc), "content").a[1]

(* the formatting tags left open by the events, when each end tag closes   *)
(* the innermost open formatting tag; "unbalanced" otherwise               *)
RECURSIVE OpenFormatting(_)
OpenFormatting(evs) ==
    IF evs = <<>> THEN <<>>
    ELSE LET before == OpenFormatting(Front(evs))
             ev == Last(evs)
         IN IF before = <<"unbalanced">> THEN before
            ELSE IF ev.e \notin {"Start", "End"} THEN before
            ELSE IF ev.tag.t \notin FormattingTags THEN before
            ELSE IF ev.e = "Start" THEN Append(before, ev.tag.t)
            ELSE IF before # <<>> /\ Last(before) = ev.tag.t THEN Front(before)
            ELSE <<"unbalanced">>

MarksStep ==
    EventTaken =>
        LET ev == Last(events') IN
        /\ (ev.e = "Start" /\ ev.tag.t \in FormattingTags)
              => marks' = Append(marks, MarkOf(ev.tag))
        /\ (ev.e = "End" /\ ev.tag.t \in FormattingTags)
              => marks' = WithoutLastOfType(marks, MarkTypeOf(ev.tag))
        /\ ~(ev.e \in {"Start", "End"} /\ ev.tag.t \in FormattingTags)
              => marks' = marks
        /\ ev.e = "Text" =>
              InlineAdded(stack', doc_content') =
                  IF marks = <<>> THEN TextNode(ev.text)
                  ELSE JObj([type |-> JStr(S_text), text |-> JStr(ev.text),
                             marks |-> JArr(marks)])
        /\ ev.e = "Code" =>
              InlineAdded(stack', doc_content') =
                  JObj([type |-> JStr(S_text), text |-> JStr(ev.text),
                        marks |-> JArr(marks \o <<JObj([type |-> JStr(S_code)])>>)])

MarksEmptyWhenBalanced ==
    (pc = "parsing" /\ OpenFormatting(events) = <<>>) => marks = <<>>

(* C18: the active marks change only on formatting tags: the start of      *)
(* emphasis, strong, strikethrough, link or image appends one mark, the    *)
(* end tag removes the most recently pushed mark of its type and no other  *)
(* (nothing when none is active); a text node carries exactly the active   *)
(* marks in push order (no marks key when none), an inline-code node those *)
(* marks followed by a code mark; after well-nested formatting tags the    *)
(* list is empty.                                                          *)
C18_ActiveMarks == [][MarksStep]_vars /\ []MarksEmptyWhenBalanced

(* C18 witness: with a link and an image open, the end of the link has     *)
(* removed the mark of the image, the later of the two link marks          *)
C18_Witness ==
    /\ pc = "parsing"
    /\ events = <<Start(TagLink(<<"u">>)), Start(TagImage(<<"v">>)), End(Tag("Link"))>>
    /\ marks = <<LinkMark(<<"u">>)>>

(* a table-head start among the events with no table-head end after it *)
HeadOpen(evs) ==
    \E i \in 1..Len(evs) :
        /\ evs[i] = Start(Tag("TableHead"))
        /\ \A j \in (i + 1)..Len(evs) : evs[j] # End(Tag("TableHead"))

FlagFollowsHead == pc = "parsing" => in_table_head = HeadOpen(events)

CellStep ==
    EventTaken =>
        /\ Last(events') = Start(Tag("TableCell")) =>
              /\ Len(stack') = Len(stack) + 1
              /\ Last(stack') = Frame(Node(IF HeadOpen(events) THEN S_tableHeader
                                           ELSE S_tableCell))
        /\ Last(events') = Start(Tag("TableHead")) =>
              Last(stack') = Frame(Node(S_tableRow))

(* C19: the in-table-head flag is true exactly between a table-head start  *)
(* and the next table-head end, so it is false at the start and after      *)
(* every table-head end; a cell started while it is true becomes a         *)
(* tableHeader, every other cell a tableCell; the head itself is a         *)
(* tableRow.                                                               *)
C19_TableHeadFlag == [][CellStep]_vars /\ []FlagFollowsHead

(* C19 witness: a cell started after the head was closed is a tableCell *)
C19_Witness ==
    /\ pc = "parsing"
    /\ events = <<Start(Tag("TableHead")), End(Tag("TableHead")), Start(Tag("TableCell"))>>
    /\ in_table_head = FALSE
    /\ stack = <<Frame(Node(S_tableCell))>>
    /\ doc_content = <<Node(S_tableRow)>>

(* the node that an inline event makes under the active marks mk *)
InlineNodeOf(ev, mk) ==
    CASE ev.e = "Text" ->
             IF mk = <<>> THEN JObj([type |-> JStr(S_text), text |-> JStr(ev.text)])
             ELSE JObj([type |-> JStr(S_text), text |-> JStr(ev.text), marks |-> JArr(mk)])
      [] ev.e = "Code" ->
             JObj([type |-> JStr(S_text), text |-> JStr(ev.text),
                   marks |-> JArr(mk \o <<JObj([type |-> JStr(S_code)])>>)])
      [] ev.e = "SoftBreak" -> JObj([type |-> JStr(S_text), text |-> JStr(<<" ">>)])
      [] ev.e = "HardBreak" -> JObj([type |-> JStr(S_hardBreak)])
      [] ev.e = "Rule" -> JObj([type |-> JStr(S_rule)])
      [] ev.e = "TaskListMarker" ->
             JObj([type |-> JStr(S_text),
                   text |-> JStr(IF ev.checked THEN <<"[", "x", "]", " ">>
                                 ELSE <<"[", " ", "]", " ">>)])

InlineEventKinds ==
    {"Text", "Code", "SoftBreak", "HardBreak", "Rule", "TaskListMarker"}

(* the stack with one more child in its top frame and nothing else changed *)
TopFrameGained(st, st_after, node) ==
    /\ Len(st_after) = Len(st)
    /\ \A i \in 1..(Len(st) - 1) : st_after[i] = st[i]
    /\ Last(st_after).node = Last(st).node
    /\ Last(st_after).children = Last(st).children \o <<node>>

InlineStep ==
    EventTaken =>
        LET ev == Last(events') IN
        /\ (ev.e \in InlineEventKinds /\ stack # <<>>) =>
              /\ TopFrameGained(stack, stack', InlineNodeOf(ev, marks))
              /\ UNCHANGED <<doc_content, marks, in_table_head>>
        /\ (ev.e \in {"Text", "Code"} /\ stack = <<>>) =>
              /\ doc_content' = doc_content \o
                     <<JObj([type |-> JStr(S_paragraph),
                             content |-> JArr(<<InlineNodeOf(ev, marks)>>)])>>
              /\ UNCHANGED <<stack, marks, in_table_head>>
        /\ (ev.e = "Rule" /\ stack = <<>>) =>
              /\ doc_content' = doc_content \o <<JObj([type |-> JStr(S_rule)])>>
              /\ UNCHANGED <<stack, marks, in_table_head>>
        /\ (ev.e \in {"SoftBreak", "HardBreak", "TaskListMarker"} /\ stack = <<>>) =>
              UNCHANGED <<stack, doc_content, marks, in_table_head>>
        /\ ev.e \notin (InlineEventKinds \cup {"Start", "End"}) =>
              UNCHANGED <<stack, doc_content, marks, in_table_head>>

(* C21: with a frame open, a text, inline-code, soft-break, hard-break,    *)
(* rule or task-marker event appends exactly one node to the children of   *)
(* the top frame and changes nothing else; with no frame open, a text or   *)
(* inline-code event appends a top-level paragraph holding that one text   *)
(* node, a rule appends a top-level rule, and a soft break, hard break or  *)
(* task marker changes nothing; an event of no handled kind changes        *)
(* nothing.                                                                *)
C21_InlineEvents == [][InlineStep]_vars

(* C21 witness: a soft break outside any frame left the builder as it was, *)
(* and a hard break inside a paragraph became the only child of its frame  *)
C21_Witness ==
    /\ pc = "parsing"
    /\ events = <<SoftBreak, Start(Tag("Paragraph")), HardBreak>>
    /\ doc_content = <<>>
    /\ stack = <<[node |-> Node(S_paragraph), children |-> <<Node(S_hardBreak)>>]>>

----------------------------------------------------------------------------
(* Claims about apply_marks (checked under SpecMarks) *)

KnownMarkTypes ==
    {S_strong, S_em, S_code, S_strike, S_underline, S_link, S_subsup,
     S_textColor, S_backgroundColor}

IsUnknownMark(m) == attr_str_or(m, "type", <<>>) \notin KnownMarkTypes

(* the delimiter a mark of this type puts on both sides *)
Delimiter(m) ==
    CASE Get(m, "type") = JStr(S_strong) -> <<"*", "*">>
      [] Get(m, "type") = JStr(S_em) -> <<"*">>
      [] Get(m, "type") = JStr(S_code) -> <<Backtick>>
      [] Get(m, "type") = JStr(S_strike) -> <<"~", "~">>
      [] OTHER -> <<>>

(* C10: apply_marks applies the marks in listed order, each around the     *)
(* result of the ones before, so the last listed is outermost:             *)
(* apply_marks(t, ms ++ [m]) = wrap(m, apply_marks(t, ms)); [strong, em]   *)
(* on "text" gives "***text***"; no list, or a mark of unknown type,       *)
(* leaves the string as it is.                                             *)
C10_MarksInListedOrder ==
    pc = "marked" =>
        /\ mark_list = None => marked = mark_text
        /\ (mark_list # None /\ mark_list.v # <<>>) =>
              LET inner == apply_marks(mark_text, Some(Front(mark_list.v)))
                  last == Last(mark_list.v)
              IN /\ marked = apply_mark(inner, last)
                 /\ Delimiter(last) # <<>>
                        => marked = Delimiter(last) \o inner \o Delimiter(last)
                 /\ IsUnknownMark(last) => marked = inner
        /\ (mark_list # None /\ \A i \in 1..Len(mark_list.v) : IsUnknownMark(mark_list.v[i]))
              => marked = mark_text
        /\ (mark_text = <<"t", "e", "x", "t">>
            /\ mark_list = Some(<<Mark(S_strong), Mark(S_em)>>))
              => marked = <<"*", "*", "*", "t", "e", "x", "t", "*", "*", "*">>
        /\ (mark_text = <<"x">> /\ mark_list = Some(<<Mark(S_strong), Mark(S_code)>>))
              => marked = <<Backtick, "*", "*", "x", "*", "*", Backtick>>

(* C10 witness: [strong, em] applied to "text" *)
C10_Witness ==
    /\ pc = "marked"
    /\ mark_text = <<"t", "e", "x", "t">>
    /\ mark_list = Some(<<Mark(S_strong), Mark(S_em)>>)
    /\ marked = <<"*", "*", "*", "t", "e", "x", "t", "*", "*", "*">>

IsLinkMark(m) == Get(m, "type") = JStr(S_link)

(* the href of a link mark: its string, or None when attrs or href is      *)
(* missing or not a string                                                 *)
HrefOf(m) == as_str(Get(Get(m, "attrs"), "href"))

TitleOf(m) == as_str(Get(Get(m, "attrs"), "title"))

SameLetter(a, b) ==
    \/ a = b
    \/ \E j \in 1..Len(UpperCase) :
          {a, b} = {UpperCase[j], LowerCase[j]}

HasScheme(href, scheme) ==
    /\ Len(href) >= Len(scheme)
    /\ \A i \in 1..Len(scheme) : SameLetter(href[i], scheme[i])

IsDangerousHref(href) ==
    \E scheme \in {S_javascript, S_vbscript, S_data} : HasScheme(href, scheme)

(* C11: a link mark whose href has, in any letter case, the scheme         *)
(* javascript:, vbscript: or data: is dropped: the text comes back with    *)
(* the effect of the marks before it only. Any other non-empty href gives  *)
(* [text](href), or [text](href "title") when attrs has a string title.    *)
(* An absent or empty href gives the bare text.                            *)
C11_LinkSanitised ==
    (pc = "marked" /\ mark_list # None /\ mark_list.v # <<>>
       /\ IsLinkMark(Last(mark_list.v))) =>
        LET inner == apply_marks(mark_text, Some(Front(mark_list.v)))
            href == HrefOf(Last(mark_list.v))
            title == TitleOf(Last(mark_list.v))
        IN IF href = None \/ href = JStr(<<>>) THEN marked = inner
           ELSE IF IsDangerousHref(href.s) THEN marked = inner
           ELSE IF title = None
           THEN marked = <<"[">> \o inner \o <<"]", "(">> \o href.s \o <<")">>
           ELSE marked = <<"[">> \o inner \o <<"]", "(">> \o href.s
                         \o <<" ", "\"">> \o title.s \o <<"\"", ")">>

(* C11 witness: a strong mark then a link to "JaVaScRiPt:a" leaves "**x**" *)
C11_Witness ==
    /\ pc = "marked"
    /\ mark_text = <<"x">>
    /\ mark_list = Some(<<Mark(S_strong),
                          LinkMark(<<"J", "a", "V", "a", "S", "c", "R", "i", "P", "t", ":", "a">>)>>)
    /\ marked = <<"*", "*", "x", "*", "*">>

-----------------------------------------------------------------------------
(* Claims about text_to_adf then adf_to_markdown (checked under            *)
(* SpecRoundTrip)                                                          *)

Fence == <<Backtick, Backtick, Backtick>>

(* the lines after the leading blank ones *)
SkipBlank(ls) ==
    LET filled == {i \in 1..Len(ls) : ls[i] # <<>>} IN
    IF filled = {} THEN <<>>
    ELSE SubSeq(ls, CHOOSE i \in filled : \A j \in filled : i <= j, Len(ls))

(* the line starts with exactly level '#' characters *)
IsHeadingLine(line, level) ==
    /\ StartsWith(line, repeat(<<"#">>, level))
    /\ Len(line) > level => line[level + 1] # "#"

(* a span as Markdown writes it: x, **x** or `x` *)
SpanMarkdown(span) ==
    CASE span.s = "plain" -> span.text
      [] span.s = "bold" -> <<"*", "*">> \o span.text \o <<"*", "*">>
      [] span.s = "code" -> <<Backtick>> \o span.text \o <<Backtick>>

(* the prefix of the i-th item of a list *)
ItemPrefix(ordered, i) ==
    IF ordered THEN NatToChars(i) \o <<".", " ">> ELSE <<"-", " ">>

(* a table line of the given cells *)
TableLine(cells) == <<"|", " ">> \o JoinWith(cells, <<" ", "|", " ">>) \o <<" ", "|">>

(* ls are the lines of the blocks, in order, with blank lines between them *)
RECURSIVE MatchBlocks(_, _)
MatchBlocks(ls, blocks) ==
    LET l == SkipBlank(ls) IN
    IF blocks = <<>> THEN l = <<>>
    ELSE
        LET b == Head(blocks)
            after(n) == MatchBlocks(SubSeq(l, n + 1, Len(l)), Tail(blocks))
        IN
        CASE b.b = "heading" ->
                /\ Len(l) >= 1
                /\ IsHeadingLine(l[1], b.level)
                /\ Contains(l[1], b.text)
                /\ after(1)
          [] b.b = "paragraph" ->
                /\ Len(l) >= 1
                /\ l[1] = JoinWith([i \in 1..Len(b.spans) |-> SpanMarkdown(b.spans[i])],
                                   <<>>)
                /\ after(1)
          [] b.b = "list" ->
                /\ Len(l) >= Len(b.items)
                /\ \A i \in 1..Len(b.items) :
                        l[i] = ItemPrefix(b.ordered, i) \o b.items[i]
                /\ after(Len(b.items))
          [] b.b = "code" ->
                /\ Len(l) >= Len(b.body) + 2
                /\ l[1] = Fence \o b.lang
                /\ \A i \in 1..Len(b.body) : l[i + 1] = b.body[i]
                /\ LET rest == SkipBlank(SubSeq(l, Len(b.body) + 2, Len(l))) IN
                   /\ rest # <<>>
                   /\ rest[1] = Fence
                   /\ MatchBlocks(Tail(rest), Tail(blocks))
          [] b.b = "table" ->
                /\ Len(l) >= Len(b.rows) + 2
                /\ l[1] = TableLine(b.header)
                /\ l[2] = TableLine([i \in 1..Len(b.header) |-> <<"-", "-", "-">>])
                /\ \A r \in 1..Len(b.rows) : l[r + 2] = TableLine(b.rows[r])
                /\ after(Len(b.rows) + 2)

(* C9: for a document of headings (levels 1-6), paragraphs of plain, bold  *)
(* and inline-code text, tight lists, fenced code blocks and simple        *)
(* tables, adf_to_markdown(text_to_adf(md)) has the structure of md: each  *)
(* heading line starts with exactly level '#', each bullet item line with  *)
(* "- " and the i-th ordered item with "i. ", each code block is a fence   *)
(* containing the code body, each table is header line, separator line and *)
(* data lines, bold and inline-code spans are **x** and `x`.               *)
C9_RoundTripStructure ==
    pc = "rendered" => MatchBlocks(lines(markdown), source)

(* the code bodies that whitespace normalization leaves alone: no line of  *)
(* whitespace only, no two blank lines in a row                            *)
IsCompactBody(body) ==
    /\ \A i \in 1..Len(body) : body[i] # <<>> => ~IsBlank(body[i])
    /\ \A i \in 1..(Len(body) - 1) : ~(body[i] = <<>> /\ body[i + 1] = <<>>)

HasOnlyCompactBodies(doc) ==
    \A i \in 1..Len(doc) : doc[i].b = "code" => IsCompactBody(doc[i].body)

(* the round trip keeps the structure of every document whose code bodies  *)
(* are compact                                                             *)
RoundTripOfCompactBodies ==
    (pc = "rendered" /\ HasOnlyCompactBodies(source))
        => MatchBlocks(lines(markdown), source)

(* a rendered document with a heading, or a list, and a compact code body *)
RoundTripReached ==
    /\ pc = "rendered"
    /\ HasOnlyCompactBodies(source)
    /\ \E i \in 1..Len(source) : source[i].b = "code"
    /\ \E i \in 1..Len(source) : source[i].b \in {"heading", "list", "table"}
    /\ markdown # <<>>

-----------------------------------------------------------------------------
(* Claims about the renderer (checked under SpecRender)                    *)

IsNodeOfType(v, type) == Get(v, "type") = JStr(type)

RowsOf(table) == as_array(Get(table, "content"))

(* a table with at least one row, every row with a content array *)
IsTableWithRows(v) ==
    /\ IsNodeOfType(v, S_table)
    /\ RowsOf(v) # None
    /\ RowsOf(v).a # <<>>
    /\ \A i \in 1..Len(RowsOf(v).a) : as_array(Get(RowsOf(v).a[i], "content")) # None

(* the output line of the i-th row: the separator follows the first row *)
LineOfRow(i) == IF i = 1 THEN 1 ELSE i + 1

(* the number of column delimiters of a line: the pipes not escaped *)
UnescapedPipes(line) ==
    Cardinality({i \in 1..Len(line) :
                    line[i] = "|" /\ (i = 1 \/ line[i - 1] # "\\")})

TableShape(table, text) ==
    LET rows == RowsOf(table).a
        n == Len(rows)
        ls == split_lf(text)
        cells(i) == row_cells_of(Get(rows[i], "content").a)
    IN /\ Len(ls) = n + 1
       /\ ls[2] = table_line([j \in 1..Len(cells(1)) |-> <<"-", "-", "-">>])
       /\ \A i \in 1..n :
             /\ ls[LineOfRow(i)] = table_line(cells(i))
             /\ cells(i) # <<>> => UnescapedPipes(ls[LineOfRow(i)]) = Len(cells(i)) + 1

(* C12: a table node with n >= 1 rows, each with a content array, renders  *)
(* as exactly n + 1 lines: the first row, one separator with one "---" per *)
(* column of the first row, then the remaining rows in order, one line per *)
(* row; every pipe of the cell content is escaped and adds no column.      *)
C12_TableLines ==
    (pc = "block" /\ IsTableWithRows(value)) =>
        /\ outcome # None
        /\ TableShape(value, outcome.v)

(* the rendered cells of the table that contain a line feed *)
CellsWithLineFeed(table) ==
    {<<i, j>> \in (1..Len(RowsOf(table).a)) \X (1..2) :
        /\ j <= Len(Get(RowsOf(table).a[i], "content").a)
        /\ Contains(convert_cell_content(Get(RowsOf(table).a[i], "content").a[j]),
                    <<"\n">>)}

(* the lines of C12 hold for the tables whose cells render without a line  *)
(* feed                                                                    *)
TableLinesWithoutLineFeed ==
    (pc = "block" /\ IsTableWithRows(value) /\ CellsWithLineFeed(value) = {}) =>
        /\ outcome # None
        /\ TableShape(value, outcome.v)

TableRendered ==
    /\ pc = "block"
    /\ IsTableWithRows(value)
    /\ Len(RowsOf(value).a) = 3
    /\ CellsWithLineFeed(value) = {}
    /\ outcome # None

(* a value of type String *)
IsString(x) == DOMAIN x = 1..Len(x)

TypeOf(v) == attr_str_or(v, "type", <<>>)

RenderedBlocks(blocks) ==
    LET kept == {i \in 1..Len(blocks) : convert_block_node(blocks[i], 0) # None}
        nth(k) == CHOOSE i \in kept : Cardinality({j \in kept : j < i}) = k - 1
    IN [k \in 1..Cardinality(kept) |-> convert_block_node(blocks[nth(k)], 0).v]

(* C15: adf_to_markdown returns "" when the value has no "content" key or  *)
(* the content is no array; otherwise it returns normalize_whitespace of   *)
(* the renderings of the top-level blocks that render to a string, in      *)
(* order, joined by "\n\n"; a block that renders to None adds nothing and  *)
(* no separator.                                                           *)
C15_DocumentRendering ==
    pc = "document" =>
        /\ as_array(Get(value, "content")) = None => markdown = <<>>
        /\ as_array(Get(value, "content")) # None =>
              markdown = normalize_whitespace(
                             JoinWith(RenderedBlocks(Get(value, "content").a),
                                      <<"\n", "\n">>))
        /\ Get(value, "content") = JArr(<<TextParagraph(<<"a">>), Null, Node(S_rule)>>)
              => markdown = <<"a", "\n", "\n", "-", "-", "-">>
        /\ Get(value, "content") =
                JArr(<<Null, TextParagraph(<<"c", "\n", "\n", "\n", "d">>), Node(S_paragraph)>>)
              => markdown = <<"c", "\n", "\n", "d">>

(* C15 witness: a block that renders to None between two that render *)
C15_Witness ==
    /\ pc = "document"
    /\ Get(value, "content") = JArr(<<TextParagraph(<<"a">>), Null, Node(S_rule)>>)
    /\ markdown = <<"a", "\n", "\n", "-", "-", "-">>

-----------------------------------------------------------------------------
(* Claims about the recursion of the renderer (checked under SpecDepth)    *)

(* the calls in progress stay within the guard: depths 0..MAX_DEPTH, and   *)
(* the call that returns the marker                                        *)
RecursionBounded == Len(stack) <= MAX_DEPTH + 2

(* the rendering has the marker, and nothing of the innermost paragraph *)
TruncatedBelowGuard ==
    pc = "rendered" =>
        /\ Contains(markdown, M_truncated)
        /\ ~Contains(markdown, <<"Q">>)

(* C13: for a document with block nodes nested 60 deep, whatever the kinds *)
(* of the containers, the recursion of adf_to_markdown is bounded by the   *)
(* depth guard and the output has "[Content truncated: max depth           *)
(* exceeded]" in place of the content at nesting depth 51 and below.       *)
C13_DepthGuard == RecursionBounded /\ TruncatedBelowGuard

(* the guard does act when every container is a listItem: each passes      *)
(* depth + 1 to convert_block_node                                         *)
DepthGuardOnListItems ==
    (\A i \in 1..Len(source) : source[i] = S_listItem) =>
        RecursionBounded /\ TruncatedBelowGuard

ListItemsTruncated ==
    /\ pc = "rendered"
    /\ \A i \in 1..Len(source) : source[i] = S_listItem
    /\ markdown = M_truncated

-----------------------------------------------------------------------------
(* Claims about headings and paragraphs (checked under SpecRender) *)

(* the level attribute of a heading, None when it has none *)
LevelOf(node) ==
    LET l == Get(Get(node, "attrs"), "level") IN
    IF l = None THEN None ELSE Some(l)

(* the text of a node whose content is one unmarked text node; None when   *)
(* it has no such child                                                    *)
OnlyText(node) ==
    LET c == as_array(Get(node, "content")) IN
    IF c = None THEN None
    ELSE IF Len(c.a) # 1 THEN None
    ELSE as_str(Get(c.a[1], "text"))

IsLevel(level, n) == level = Some(JInt(n))

(* the heading line with n '#' characters *)
HeadingLine(n, text) == [i \in 1..n |-> "#"] \o <<" ">> \o text

(* text is the text of the node and has a character that is no white space *)
HasInk(node) ==
    /\ OnlyText(node) # None
    /\ \E i \in 1..Len(OnlyText(node).s) : OnlyText(node).s[i] \notin Whitespace

HeadingRendered(node, res) ==
    IF HasInk(node)
    THEN \E n \in 1..6 :
            /\ res = Some(HeadingLine(n, OnlyText(node).s))
            /\ \A m \in 1..6 : IsLevel(LevelOf(node), m) => n = m
    ELSE res = None

ParagraphRendered(node, res) ==
    IF HasInk(node) THEN res = Some(OnlyText(node).s) ELSE res = None

(* C23: a heading renders as N '#' characters, a space and the inline      *)
(* text, N being between 1 and 6 for every level value and the level       *)
(* itself when that is 1 to 6; a heading or paragraph whose text is empty  *)
(* or white space renders to None.                                         *)
C23_HeadingLevels ==
    (pc = "block" /\ value \in HeadingChoices) =>
        IF TypeOf(value) = S_heading THEN HeadingRendered(value, outcome)
        ELSE ParagraphRendered(value, outcome)

(* the same for every level value but 0 *)
HeadingLevelsExceptZero ==
    (pc = "block" /\ ~IsLevel(LevelOf(value), 0)) => C23_HeadingLevels

(* a heading of level 0 is rendered without any '#' *)
HeadingWithoutHash ==
    /\ pc = "block"
    /\ value = HeadingOf(Some(JInt(0)), <<TextNode(<<"T">>)>>)
    /\ outcome = Some(<<" ", "T">>)

(* a heading of level 8 is rendered with six '#' *)
HeadingClampedAbove ==
    /\ pc = "block"
    /\ value = HeadingOf(Some(JInt(8)), <<TextNode(<<"T">>)>>)
    /\ outcome = Some(<<"#", "#", "#", "#", "#", "#", " ", "T">>)

-----------------------------------------------------------------------------
(* Claims about the columns of a table row (checked under SpecRender) *)

(* the colspan of a cell: 1 when absent or no non-negative integer *)
SpanOf(cell) ==
    LET c == Get(Get(cell, "attrs"), "colspan") IN
    IF c = None THEN 1
    ELSE IF c.k = "int" THEN (IF c.n >= 0 THEN c.n ELSE 1)
    ELSE 1

(* the columns of a cell: its content, then empty columns up to its colspan *)
ColumnsOf(cell) ==
    [i \in 1..SpanOf(cell) |->
        IF i = 1 THEN OnlyText(Get(cell, "content").a[1]).s ELSE <<>>]

RECURSIVE ColumnsOfRow(_)
ColumnsOfRow(cells) ==
    IF cells = <<>> THEN <<>> ELSE ColumnsOf(Head(cells)) \o ColumnsOfRow(Tail(cells))

RowLine(columns) ==
    <<"|", " ">> \o JoinWith(columns, <<" ", "|", " ">>) \o <<" ", "|">>

CellsOfOnlyRow(table) == Get(RowsOf(table).a[1], "content").a

RowColumns(table, text) ==
    LET cells == CellsOfOnlyRow(table)
        row == split_lf(text)[1]
    IN /\ row = RowLine(ColumnsOfRow(cells))
       /\ UnescapedPipes(row) >= Len(cells) + 1
       /\ \A j \in 1..Len(cells) :
             Contains(row, OnlyText(Get(cells[j], "content").a[1]).s)

(* C25: every cell of a table row contributes at least one column to the   *)
(* rendered row: a cell with colspan k contributes exactly k columns, the  *)
(* first holding the content of the cell and the other k - 1 empty, with   *)
(* k = 1 when colspan is absent or no non-negative integer; the content of *)
(* no cell is dropped from its row, whatever the colspan.                  *)
C25_ColspanColumns ==
    (pc = "block" /\ value \in SpanTableChoices) =>
        /\ outcome # None
        /\ RowColumns(value, outcome.v)

(* the same for the rows in which no cell has colspan 0 *)
ColspanColumnsAboveZero ==
    (pc = "block" /\ value \in SpanTableChoices
        /\ \A j \in 1..Len(CellsOfOnlyRow(value)) : SpanOf(CellsOfOnlyRow(value)[j]) # 0)
    => C25_ColspanColumns

(* the cell "a" with colspan 0 is missing from its row *)
CellDropped ==
    /\ pc = "block"
    /\ value = WithContent(S_table,
                   <<WithContent(S_tableRow,
                         <<SpanCell(Some(JInt(0)), <<"a">>), SpanCell(None, <<"b">>)>>)>>)
    /\ outcome = Some(<<"|", " ", "b", " ", "|", "\n", "|", " ", "-", "-", "-", " ", "|">>)

-----------------------------------------------------------------------------
(* Claims about convert_date (checked under SpecRender) *)

(* the timestamp string of a date node; None when the attribute is absent  *)
(* or no string                                                            *)
TimestampOf(node) == as_str(Get(Get(node, "attrs"), "timestamp"))

(* the string is a decimal number: digits, or a minus sign and digits *)
IsDecimal(x) ==
    LET body == IF x # <<>> /\ Head(x) = "-" THEN Tail(x) ELSE x IN
    /\ body # <<>>
    /\ \A i \in 1..Len(body) : IsDigit(body[i])

Magnitude(x) == strip_zeros(IF Head(x) = "-" THEN Tail(x) ELSE x)

IsNegativeMs(x) == Head(x) = "-" /\ Magnitude(x) # <<"0">>

(* the last millisecond that the renderer takes as a date: MAX_SECS        *)
(* seconds and 999 milliseconds                                            *)
LastMs == <<"3", "2", "5", "0", "3", "6", "8", "0", "0", "0", "0", "9", "9", "9">>

IsBeyondYear3000(x) == ~IsNegativeMs(x) /\ DigitsLess(LastMs, Magnitude(x))

(* the Gregorian date of the day number z counted from 1970-01-01, by the  *)
(* 400-year era of 146097 days and the year that starts on 1 March         *)
CivilFromDays(z) ==
    LET shifted == z + 719468
        era == shifted \div 146097
        doe == shifted - era * 146097
        yoe == (doe - doe \div 1460 + doe \div 36524 - doe \div 146096) \div 365
        doy == doe - (365 * yoe + yoe \div 4 - yoe \div 100)
        mp == (5 * doy + 2) \div 153
        d == doy - (153 * mp + 2) \div 5 + 1
        m == IF mp < 10 THEN mp + 3 ELSE mp - 9
        y == yoe + era * 400 + (IF m <= 2 THEN 1 ELSE 0)
    IN [year |-> y, month |-> m, day |-> d]

TwoDigits(n) == <<Digits[(n \div 10) + 1], Digits[(n % 10) + 1]>>

FourDigits(n) == TwoDigits(n \div 100) \o TwoDigits(n % 100)

IsoDate(date) ==
    FourDigits(date.year) \o <<"-">> \o TwoDigits(date.month) \o <<"-">>
    \o TwoDigits(date.day)

(* floor(ms / 86400000) of a non-negative decimal string *)
DayOfMs(x) == div_digits(Magnitude(x), MsPerDay, 0, 0)

DateRendered(node, text) ==
    LET ts == TimestampOf(node) IN
    IF ts = None THEN text = <<>>
    ELSE IF ~IsDecimal(ts.s) THEN text = ts.s
    ELSE IF IsNegativeMs(ts.s) THEN StartsWith(text, M_pre_epoch)
    ELSE IF IsBeyondYear3000(ts.s) THEN StartsWith(text, M_invalid_timestamp)
    ELSE text = IsoDate(CivilFromDays(DayOfMs(ts.s)))

(* C26: convert_date on a date node whose timestamp is a string of epoch   *)
(* milliseconds renders the pre-epoch marker for every negative number,    *)
(* the invalid-timestamp marker for every number beyond the year 3000, and *)
(* otherwise YYYY-MM-DD, the Gregorian UTC date of day                     *)
(* floor(ms / 86400000) since 1970-01-01; a string that is no number is    *)
(* returned as it is and an absent timestamp gives the empty string.       *)
C26_DateRendering ==
    (pc = "inline" /\ value \in DateChoices) => DateRendered(value, outcome.v)

(* the number is within the last second before the epoch, or outside i64 *)
IsSubSecondNegative(x) == IsNegativeMs(x) /\ Len(Magnitude(x)) <= 3

IsOutsideI64(x) ==
    DigitsLess(IF IsNegativeMs(x) THEN I64MinDigits ELSE I64MaxDigits, Magnitude(x))

(* the same for every timestamp but those two kinds *)
DateRenderingWithinRange ==
    (pc = "inline" /\ value \in DateChoices
        /\ (TimestampOf(value) # None /\ IsDecimal(TimestampOf(value).s)
               => /\ ~IsSubSecondNegative(TimestampOf(value).s)
                  /\ ~IsOutsideI64(TimestampOf(value).s)))
    => C26_DateRendering

(* one millisecond before the epoch is rendered as the first day of 1970 *)
NegativeRenderedAsEpoch ==
    /\ pc = "inline"
    /\ value = DateNode(<<"-", "1">>)
    /\ outcome = Some(<<"1", "9", "7", "0", "-", "0", "1", "-", "0", "1">>)

(* the last millisecond of 29 February 2024 *)
LeapDayRendered ==
    /\ pc = "inline"
    /\ value = DateNode(MsChars(19782, 863, 99999))
    /\ outcome = Some(<<"2", "0", "2", "4", "-", "0", "2", "-", "2", "9">>)
-----------------------------------------------------------------------------
(* Claims about the link targets of a rendered document (checked under     *)
(* SpecRender)                                                             *)

DangerousSchemes == {S_javascript, S_vbscript, S_data}

(* the text has a link target that starts with the scheme, in any case *)
HasTargetOfScheme(text, scheme) == Contains(to_lowercase(text), <<"]", "(">> \o scheme)

(* the only block of the document, and whether a card is in it *)
OnlyBlock(doc) == Get(doc, "content").a[1]

HasCard(block) ==
    \/ TypeOf(block) = S_embedCard
    \/ \E url \in UrlChoices :
          block \in {WithContent(S_paragraph,
                                 <<TextNode(<<"s", " ">>), CardNode(S_inlineCard, url)>>),
                     WithContent(S_blockquote,
                                 <<WithContent(S_paragraph, <<CardNode(S_inlineCard, url)>>)>>)}

(* C27: no Markdown link in the output of adf_to_markdown, whether from a  *)
(* link mark, an inlineCard or an embedCard, has a target whose scheme is  *)
(* javascript:, vbscript: or data:, compared without regard to case.       *)
C27_NoDangerousTarget ==
    (pc = "document" /\ value \in LinkDocChoices) =>
        \A scheme \in DangerousSchemes : ~HasTargetOfScheme(markdown, scheme)

(* the same for the documents whose link comes from a link mark *)
NoDangerousTargetFromMarks ==
    (pc = "document" /\ value \in LinkDocChoices /\ ~HasCard(OnlyBlock(value)))
    => C27_NoDangerousTarget

(* a harmless target is kept, so the links are rendered at all *)
HarmlessTargetKept ==
    /\ pc = "document"
    /\ value \in LinkDocChoices
    /\ ~HasCard(OnlyBlock(value))
    /\ markdown = <<"[", "t", "]", "(", "h", "t", "t", "p", "s", ":", "/", "/", "a", ")">>

(* an inlineCard with a javascript: url is rendered as a link to it *)
CardTargetDangerous ==
    /\ pc = "document"
    /\ value \in LinkDocChoices
    /\ OnlyBlock(value) =
          WithContent(S_paragraph,
                      <<TextNode(<<"s", " ">>), CardNode(S_inlineCard, S_javascript \o <<"x">>)>>)
    /\ markdown = <<"s", " ", "[">> \o S_javascript \o <<"x", "]", "(">>
                  \o S_javascript \o <<"x", ")">>
-----------------------------------------------------------------------------
(* Claims about the body of a code block in a rendered document (checked   *)
(* under SpecRender)                                                       *)

(* the text values of the children, one after the other *)
RECURSIVE ChildTexts(_)
ChildTexts(children) ==
    IF children = <<>> THEN <<>>
    ELSE Get(Head(children), "text").s \o ChildTexts(Tail(children))

CodeOf(doc) == ChildTexts(Get(OnlyBlock(doc), "content").a)

LanguageOf(doc) == attr_str_or(Get(OnlyBlock(doc), "attrs"), "language", <<>>)

(* the document text is the opening fence line, the code, the closing      *)
(* fence line                                                              *)
FencedExactly(text, language, code) ==
    text = Fence \o language \o <<"\n">> \o code \o <<"\n">> \o Fence

(* C28: for a top-level codeBlock the text between the opening fence line  *)
(* and the closing fence line in the output of adf_to_markdown is exactly  *)
(* the concatenation of the child text values, marks ignored, with every   *)
(* run of blank lines and every line of white space of the code.           *)
C28_CodeBodyKept ==
    (pc = "document" /\ value \in CodeDocChoices) =>
        FencedExactly(markdown, LanguageOf(value), CodeOf(value))

(* the same for the codes without two blank lines in a row and without a   *)
(* line of white space                                                     *)
CompactCodeBodyKept ==
    (pc = "document" /\ value \in CodeDocChoices /\ IsCompactBody(split_lf(CodeOf(value))))
    => C28_CodeBodyKept

(* two blank lines of the code have become one *)
CodeBlankLinesCollapsed ==
    /\ pc = "document"
    /\ value \in CodeDocChoices
    /\ CodeOf(value) = <<"a", "\n", "\n", "\n", "b">>
    /\ markdown = Fence \o <<"\n", "a", "\n", "\n", "b", "\n">> \o Fence

(* a marked text child in a block with a language *)
MarkedCodeKept ==
    /\ pc = "document"
    /\ value = JObj([type |-> JStr(S_doc), version |-> JInt(1),
                     content |-> JArr(<<CodeBlockOf(Some(<<"r", "s">>),
                                                    <<CodeText(<<"a", "\n", "b">>, TRUE)>>)>>)])
    /\ markdown = Fence \o <<"r", "s", "\n", "a", "\n", "b", "\n">> \o Fence
-----------------------------------------------------------------------------
(* Claims about emphasis around inline code (checked under SpecCodeSpan) *)

(* the Markdown delimiter of a formatting tag *)
DelimiterOfTag(tag) ==
    CASE tag.t = "Strong" -> <<"*", "*">>
      [] tag.t = "Emphasis" -> <<"*">>
      [] tag.t = "Strikethrough" -> <<"~", "~">>

(* the span wrapped in the delimiters of the tags, the last tag innermost *)
RECURSIVE WrappedIn(_, _)
WrappedIn(tags, span) ==
    IF tags = <<>> THEN span
    ELSE WrappedIn(Front(tags),
                   DelimiterOfTag(Last(tags)) \o span \o DelimiterOfTag(Last(tags)))

(* the formatting tags open before the i-th event: the open tags but the   *)
(* paragraph                                                               *)
FormattingOpenAt(evs, i) == Tail(OpenTags(SubSeq(evs, 1, i - 1)))

(* the inline code events that come while a formatting tag is open *)
EmphasisedCode(evs) ==
    {i \in 1..Len(evs) : evs[i].e = "Code" /\ FormattingOpenAt(evs, i) # <<>>}

(* C29: emphasis around inline code survives the build-then-render round   *)
(* trip: for a text node that the builder made from an inline-code event   *)
(* while strong, em or strike marks were active, the renderer emits the    *)
(* backtick span innermost and the emphasis markers around it, never the   *)
(* emphasis markers inside the backticks.                                  *)
C29_CodeSpanInnermost ==
    pc = "rendered" =>
        \A i \in EmphasisedCode(events) :
            Contains(markdown,
                     WrappedIn(FormattingOpenAt(events, i),
                               <<Backtick>> \o events[i].text \o <<Backtick>>))

(* inline code without emphasis around it, and emphasis around plain text, *)
(* do survive the round trip                                               *)
PlainCodeSpanKept ==
    pc = "rendered" =>
        \A i \in 1..Len(events) :
            /\ (events[i].e = "Code" /\ FormattingOpenAt(events, i) = <<>>) =>
                  Contains(markdown, <<Backtick>> \o events[i].text \o <<Backtick>>)
            /\ (events[i].e = "Text" /\ Len(FormattingOpenAt(events, i)) = 1) =>
                  Contains(markdown, WrappedIn(FormattingOpenAt(events, i), events[i].text))

(* strong around inline code comes back with the markers inside the        *)
(* backticks                                                               *)
EmphasisInsideCode ==
    /\ pc = "rendered"
    /\ events = <<Start(Tag("Paragraph")), Start(Tag("Strong")), Code(<<"x">>),
                  End(Tag("Strong")), End(Tag("Paragraph"))>>
    /\ markdown = <<Backtick, "*", "*", "x", "*", "*", Backtick>>
----------------------------------------------------------------------------
(* Claims about the guard of convert_block_node (checked under SpecGuard) *)

(* the call on node at depth d, entered through the list item loop         *)
(* (via = "item") or through convert_block_node (via = "block"), makes or  *)
(* is a call of convert_block_node with a depth above MAX_DEPTH: only      *)
(* lists and list items hand their depth on                                *)
RECURSIVE CallsBeyondGuard(_, _, _)
CallsBeyondGuard(via, node, d) ==
    LET type == TypeOf(node)
        content == as_array(Get(node, "content"))
        kids == IF content = None THEN <<>> ELSE content.a
    IN IF via = "block" /\ d > MAX_DEPTH THEN TRUE
       ELSE IF via = "block" /\ type \notin {S_bulletList, S_orderedList, S_listItem}
       THEN FALSE
       ELSE IF type \in {S_bulletList, S_orderedList} /\ via = "block"
       THEN \E i \in 1..Len(kids) : CallsBeyondGuard("item", kids[i], d)
       ELSE \E i \in 1..Len(kids) :
                LET child == kids[i]
                    child_type == TypeOf(child)
                    grand == as_array(Get(child, "content"))
                IN CASE child_type = S_paragraph -> FALSE
                     [] child_type \in {S_bulletList, S_orderedList} ->
                           /\ grand # None
                           /\ \E j \in 1..Len(grand.a) :
                                  CallsBeyondGuard("item", grand.a[j], d + 1)
                     [] OTHER -> CallsBeyondGuard("block", child, d + 1)

(* C22: convert_block_node(node, depth) with depth > 50 returns the        *)
(* truncation marker for every node, whatever the node is; with            *)
(* depth <= 50 the marker is not in the result unless a nested call with a *)
(* depth above 50 put it there.                                            *)
C22_GuardAtDepth ==
    pc = "guarded" =>
        /\ call_depth > MAX_DEPTH => outcome = Some(M_truncated)
        /\ (call_depth <= MAX_DEPTH /\ ~CallsBeyondGuard("block", value, call_depth)) =>
              (outcome = None \/ ~Contains(outcome.v, M_truncated))

(* what a list item of ItemChoices renders to: the text of its paragraph,  *)
(* None when it has no content or the text is blank                        *)
ItemOutput(item) ==
    LET c == as_array(Get(item, "content")) IN
    IF c = None THEN None
    ELSE IF c.a = <<>> THEN None
    ELSE IF HasInk(c.a[1]) THEN Some(OnlyText(c.a[1]).s)
    ELSE None

Renders(item) == ItemOutput(item) # None

(* the entries of a list: one per item that renders, numbered 1, 2, ..., k *)
(* among the rendered ones                                                 *)
ListEntries(type, items, d) ==
    LET rendered == SelectSeq(items, Renders) IN
    [k \in 1..Len(rendered) |->
        [i \in 1..(2 * d) |-> " "]
        \o (IF type = S_orderedList THEN NatToChars(k) \o <<".", " ">>
            ELSE <<"-", " ">>)
        \o ItemOutput(rendered[k]).v]

ListRendered(type, items, d, res) ==
    IF ListEntries(type, items, d) = <<>> THEN res = None
    ELSE res = Some(JoinWith(ListEntries(type, items, d), <<"\n">>))

(* C24: an orderedList at depth d renders one entry per child list item    *)
(* that produces output, each prefixed by 2*d spaces and a 1-based ordinal *)
(* followed by ". "; the ordinals of the rendered entries are consecutive  *)
(* 1, 2, ..., k (an item that renders to nothing consumes no number); a    *)
(* bulletList entry is prefixed by 2*d spaces and "- "; a list with no     *)
(* rendered entry renders to None.                                         *)
C24_ListOrdinals ==
    (pc = "guarded" /\ value \in ListChoices /\ call_depth <= MAX_DEPTH) =>
        ListRendered(TypeOf(value), Get(value, "content").a, call_depth, outcome)

(* no item that renders comes after one that does not *)
RenderedItemsFirst(items) ==
    \A i \in 1..Len(items) : \A j \in (i + 1)..Len(items) :
        Renders(items[j]) => Renders(items[i])

(* the same for bullet lists, and for the ordered lists in which no item   *)
(* that renders follows one that does not                                  *)
ListOrdinalsWithoutGap ==
    (pc = "guarded" /\ value \in ListChoices
        /\ (TypeOf(value) = S_orderedList => RenderedItemsFirst(Get(value, "content").a)))
    => C24_ListOrdinals

(* an ordered list whose second item renders to nothing numbers the third  *)
(* item 3                                                                  *)
OrdinalSkipped ==
    /\ pc = "guarded"
    /\ call_depth = 1
    /\ value = WithContent(S_orderedList,
                   <<WithContent(S_listItem, <<TextParagraph(<<"a">>)>>),
                     Node(S_listItem),
                     WithContent(S_listItem, <<TextParagraph(<<"b", "c">>)>>)>>)
    /\ outcome = Some(<<" ", " ", "1", ".", " ", "a", "\n",
                        " ", " ", "3", ".", " ", "b", "c">>)

(* C22 witness: at depth 51 a value that is no node at all gets the marker *)
C22_Witness ==
    /\ pc = "guarded"
    /\ call_depth = MAX_DEPTH + 1
    /\ value = Null
    /\ outcome = Some(M_truncated)

(* at depth 50 a paragraph is rendered, and a list item whose child goes   *)
(* through the catch-all arm carries the marker of the nested call         *)
GuardBoundary ==
    /\ pc = "guarded"
    /\ call_depth = MAX_DEPTH
    /\ CallsBeyondGuard("block", value, call_depth)
    /\ outcome # None /\ Contains(outcome.v, M_truncated)

----------------------------------------------------------------------------
(* Claims about normalize_whitespace (checked under SpecNormalize)         *)

(* the elements of a sequence of lines that are not blank, in order *)
NonBlankLines(ls) == SelectSeq(ls, LAMBDA l : ~IsBlank(l))

(* the lines of an output: the pieces between its line feeds; the empty    *)
(* output has no line                                                      *)
OutputLines(text) == IF text = <<>> THEN <<>> ELSE split_lf(text)

NoTwoBlankLines ==
    pc # "start" =>
        \A i \in 1..(Len(OutputLines(markdown)) - 1) :
            ~(IsBlank(OutputLines(markdown)[i]) /\ IsBlank(OutputLines(markdown)[i + 1]))

NoBlankLineAtEnds ==
    (pc # "start" /\ markdown # <<>>) =>
        /\ ~IsBlank(Head(OutputLines(markdown)))
        /\ ~IsBlank(Last(OutputLines(markdown)))

NonBlankLinesKept ==
    pc # "start" => NonBlankLines(OutputLines(markdown)) = NonBlankLines(lines(source))

NormalizeIdempotent ==
    pc = "renormalized" => outcome = Some(markdown)

(* C16: the output of normalize_whitespace never has two consecutive blank *)
(* lines and never begins or ends with a blank line; the non-blank lines   *)
(* of the input appear unchanged and in the same order; and the function   *)
(* is idempotent: normalizing its output gives the output again.           *)
C16_NormalizeWhitespace ==
    NoTwoBlankLines /\ NoBlankLineAtEnds /\ NonBlankLinesKept /\ NormalizeIdempotent

(* the four parts hold for the texts in which no line ends in a carriage   *)
(* return of its own                                                       *)
NormalizeWithoutCarriageReturn ==
    (\A i \in 1..Len(source) : source[i] # "\r") => C16_NormalizeWhitespace

NormalizedTwice ==
    /\ pc = "renormalized"
    /\ source = <<"\n", "a", "\n", "\n", "\n", "a">>
    /\ markdown = <<"a", "\n", "\n", "a">>
    /\ outcome = Some(markdown)

-----------------------------------------------------------------------------
(* Claims about the builder on well-nested streams (checked under          *)
(* SpecNested)                                                             *)

(* the tags for which a frame is pushed and popped *)
IsFrameTag(tag) == tag.t \in BlockTagEnds

(* the node type of the frame of a tag, outside a table head *)
FrameType(tag) ==
    CASE tag.t = "Paragraph" -> S_paragraph
      [] tag.t = "BlockQuote" -> S_blockquote
      [] tag.t = "List" -> IF tag.first_item # None THEN S_orderedList ELSE S_bulletList
      [] tag.t = "Item" -> S_listItem
      [] tag.t = "TableCell" -> S_tableCell

(* the end event that closes the block started at position i: the first    *)
(* position after i with as many ends as starts from i on                  *)
MatchingEnd(evs, i) ==
    LET balanced(j) ==
            Cardinality({k \in i..j : evs[k].e = "Start"})
                = Cardinality({k \in i..j : evs[k].e = "End"})
    IN CHOOSE j \in (i + 1)..Len(evs) :
           balanced(j) /\ \A k \in (i + 1)..(j - 1) : ~balanced(k)

(* the node of a closed block with the nodes of its events as children:    *)
(* no content key without children; the children of a list item or a table *)
(* cell in paragraphs                                                      *)
ClosedNode(tag, kids) ==
    IF kids = <<>> THEN Node(FrameType(tag))
    ELSE WithContent(FrameType(tag),
                  IF tag.t \in {"Item", "TableCell"}
                  THEN wrap_inline_in_paragraphs(kids) ELSE kids)

(* the nodes that the events lo..hi of a well-nested stream stand for, by  *)
(* descent into each started block: a text is a text node (in a paragraph  *)
(* of its own at top level), a rule a rule node, a block with a frame one  *)
(* node around the nodes of its events; a block without a frame leaves its *)
(* events where they are                                                   *)
RECURSIVE ExpectedNodes(_, _, _, _)
ExpectedNodes(evs, lo, hi, top_level) ==
    IF lo > hi THEN <<>>
    ELSE IF evs[lo].e = "Text"
    THEN <<IF top_level THEN ParagraphOf(<<TextNode(evs[lo].text)>>)
           ELSE TextNode(evs[lo].text)>>
         \o ExpectedNodes(evs, lo + 1, hi, top_level)
    ELSE IF evs[lo].e = "Rule"
    THEN <<Node(S_rule)>> \o ExpectedNodes(evs, lo + 1, hi, top_level)
    ELSE IF IsFrameTag(evs[lo].tag)
    THEN <<ClosedNode(evs[lo].tag,
                      ExpectedNodes(evs, lo + 1, MatchingEnd(evs, lo) - 1, FALSE))>>
         \o ExpectedNodes(evs, MatchingEnd(evs, lo) + 1, hi, top_level)
    ELSE ExpectedNodes(evs, lo + 1, MatchingEnd(evs, lo) - 1, top_level)
         \o ExpectedNodes(evs, MatchingEnd(evs, lo) + 1, hi, top_level)

(* the open tags that have a frame *)
OpenFrameTags(evs) == SelectSeq(OpenTags(evs), IsFrameTag)

(* C17: every block start tag pushes exactly one frame and every block end *)
(* tag pops exactly the top frame, so the stack holds one frame per open   *)
(* block, of the type of its tag; after a well-nested stream the stack is  *)
(* empty and every started block is in the result exactly once, as a child *)
(* of the block that was open when it started (or at top level), siblings  *)
(* in event order; a node closed without children has no "content" key.    *)
C17_StackDiscipline ==
    pc = "parsing" =>
        /\ Len(stack) = Len(OpenFrameTags(events))
        /\ \A i \in 1..Len(stack) :
              stack[i].node = Node(FrameType(OpenFrameTags(events)[i]))
        /\ OpenTags(events) = <<>> =>
              /\ stack = <<>>
              /\ doc_content = ExpectedNodes(events, 1, Len(events), TRUE)

(* C17 witness: a list of one item closed after a text: the stack is       *)
(* empty and the list is the only top-level node, around its item          *)
C17_Witness ==
    /\ pc = "parsing"
    /\ events = <<Start(TagList(None)), Start(Tag("Item")), Text(<<"a">>),
                  End(Tag("Item")), End(Tag("List"))>>
    /\ stack = <<>>
    /\ doc_content =
          <<WithContent(S_bulletList,
                <<WithContent(S_listItem, <<ParagraphOf(<<TextNode(<<"a">>)>>)>>)>>)>>

(* the children of a closed list item or table cell: each block child, and *)
(* each maximal run of children that are no block in one paragraph, in the *)
(* order of their first positions                                          *)
RunsInParagraphs(kids) ==
    LET firsts == {i \in 1..Len(kids) :
                      is_block_node(kids[i]) \/ i = 1 \/ is_block_node(kids[i - 1])}
        nth(k) == CHOOSE i \in firsts : Cardinality({j \in firsts : j < i}) = k - 1
        run_end(i) == CHOOSE j \in i..Len(kids) :
                          /\ \A m \in i..j : ~is_block_node(kids[m])
                          /\ j = Len(kids) \/ is_block_node(kids[j + 1])
    IN [k \in 1..Cardinality(firsts) |->
           IF is_block_node(kids[nth(k)]) THEN kids[nth(k)]
           ELSE ParagraphOf(SubSeq(kids, nth(k), run_end(nth(k))))]

(* the node that the last end event closed: the last child of the frame    *)
(* now on top, or the last top-level node                                  *)
ClosedBy(st, dc) ==
    IF st # <<>> THEN Last(Last(st).children) ELSE Last(dc)

(* an end event of a block with a frame has just been taken *)
FrameClosed ==
    /\ pc = "parsing" /\ pc' = "parsing"
    /\ Len(events') = Len(events) + 1
    /\ Last(events').e = "End"
    /\ IsFrameTag(Last(events').tag)
    /\ stack # <<>>

(* C20: when a listItem or table cell frame is closed with children, every *)
(* child of the resulting node is block-level: each maximal run of inline  *)
(* children is one synthesized paragraph holding the run in order, the     *)
(* block children stay as they are and in place, and no child is lost or   *)
(* reordered; the frames of every other kind keep their children as they   *)
(* are.                                                                    *)
C20_BlockWrap ==
    [][FrameClosed =>
         LET kids == Last(stack).children
             node == ClosedBy(stack', doc_content')
             wraps == Last(events').tag.t \in {"Item", "TableCell"}
         IN /\ kids = <<>> => Get(node, "content") = None
            /\ (kids # <<>> /\ ~wraps) => Get(node, "content") = JArr(kids)
            /\ (kids # <<>> /\ wraps) =>
                  /\ Get(node, "content") = JArr(RunsInParagraphs(kids))
                  /\ \A i \in 1..Len(Get(node, "content").a) :
                        is_block_node(Get(node, "content").a[i])]_vars

(* C20 witness: a list item closed with a text, a rule and a text: two     *)
(* paragraphs around the rule                                              *)
C20_Witness ==
    /\ pc = "parsing"
    /\ events = <<Start(Tag("Item")), Text(<<"a">>), Rule, Text(<<"a">>),
                  End(Tag("Item"))>>
    /\ doc_content =
          <<WithContent(S_listItem,
                <<ParagraphOf(<<TextNode(<<"a">>)>>), Node(S_rule),
                  ParagraphOf(<<TextNode(<<"a">>)>>)>>)>>

-----------------------------------------------------------------------------
(* search_all of jira/api.rs and confluence/api.rs: one call, one request  *)
(* at a time.  args holds the api and the stream and as_markdown flags,    *)
(* requests the continuation each request carried (None on the first),     *)
(* pages the bodies as the loop read them, printed the lines written to    *)
(* stdout (a line is held as the item it serialises), and all_items,       *)
(* next_page and page_num are the loop's locals.  Up to MaxPages pages.    *)
MaxPages == 3

T_first == <<"t", "1">>
T_second == <<"t", "2">>
base_url == <<"B">>
LinksBase == <<"B", "/", "w">>
RelativeNext == <<"/", "n">>
AbsoluteNext == <<"h", "t", "t", "p", ":", "n">>

(* an object of the members that are present, from <<key, Option>> pairs *)
PageOf(ms) ==
    JObj([key \in {m[1] : m \in {x \in ms : x[2] # None}} |->
            (CHOOSE m \in ms : m[1] = key)[2].v])

DescribedDoc == build_doc(<<ParagraphOf(<<TextNode(<<"d">>)>>)>>)

ItemA ==
    JObj([id |-> JStr(<<"A">>),
          fields |-> JObj([description |-> DescribedDoc])])

ItemB == JObj([id |-> JStr(<<"B">>), fields |-> JObj([description |-> Null])])

ItemC == JObj([id |-> JStr(<<"C">>)])

ItemLists == {<<>>, <<ItemA>>, <<ItemB, ItemC>>}

ItemFields ==
    {None, Some(JStr(<<"x">>))} \cup {Some(JArr(a)) : a \in ItemLists}

TokenFields ==
    {None, Some(JStr(T_first)), Some(JStr(T_second)), Some(JInt(7))}

(* the bodies the Jira search endpoint may answer with *)
JiraResponses ==
    {PageOf({<<"issues", i>>, <<"nextPageToken", t>>,
             <<"expand", Some(JStr(<<"e">>))>>}) :
        i \in ItemFields, t \in TokenFields}

LinkFields ==
    {None, Some(Null)} \cup
    {Some(PageOf({<<"next", n>>, <<"base", b>>})) :
        n \in {None, Some(JStr(RelativeNext)), Some(JStr(AbsoluteNext)),
               Some(JInt(7))},
        b \in {None, Some(JStr(LinksBase))}}

(* the bodies the Confluence search endpoint may answer with *)
ConfluenceResponses ==
    {PageOf({<<"results", r>>, <<"_links", l>>}) :
        r \in ItemFields, l \in LinkFields}

SearchArgs ==
    {[api |-> "jira", stream |-> s, as_markdown |-> m] :
        s \in BOOLEAN, m \in BOOLEAN} \cup
    {[api |-> "confluence", stream |-> s, as_markdown |-> FALSE] :
        s \in BOOLEAN}

FailureKinds == {"transport", "status", "body"}

(* filter::apply drops the members the configuration excludes from a       *)
(* response; the members search_all reads are none of them                 *)
filter_apply(data) ==
    IF data.k = "obj"
    THEN JObj([key \in DOMAIN data.o \ {"expand"} |-> data.o[key]])
    ELSE data

convert_issue_to_markdown(issue) ==
    LET fields == Get(issue, "fields")
    IN IF fields = None THEN issue
       ELSE LET desc == Get(fields, "description")
            IN IF desc = None THEN issue
               ELSE IF desc.k = "obj"
                    THEN JObj([issue.o EXCEPT
                             !["fields"] = JObj([fields.o EXCEPT
                                 !["description"] =
                                     JStr(adf_to_markdown(desc))])])
                    ELSE issue

(* data[key].as_array().cloned().unwrap_or_default() *)
array_or_default(data, key) ==
    IF as_array(Get(data, key)) = None THEN <<>> ELSE Get(data, key).a

processed_issues(issues, as_markdown) ==
    IF as_markdown
    THEN [i \in DOMAIN issues |-> convert_issue_to_markdown(issues[i])]
    ELSE issues

(* data["nextPageToken"].as_str().map(String::from) *)
next_page_token(data) ==
    IF as_str(Get(data, "nextPageToken")) = None
    THEN None
    ELSE Some(Get(data, "nextPageToken").s)

(* data["_links"]["next"].as_str() *)
next_path(data) ==
    IF as_str(Get(Get(data, "_links"), "next")) = None
    THEN None
    ELSE Some(Get(Get(data, "_links"), "next").s)

(* data["_links"]["base"].as_str().unwrap_or(base_url) *)
links_base(data) ==
    IF as_str(Get(Get(data, "_links"), "base")) = None
    THEN base_url
    ELSE Get(Get(data, "_links"), "base").s

build_next_url(base, path) ==
    IF StartsWith(path, <<"h", "t", "t", "p">>) THEN path ELSE base \o path

never_breaks_on_empty(next, count) == next = None

(* if next.is_none() || count == 0 { break; } *)
loop_breaks(next, count) == next = None \/ count = 0

search_result(stream, items) ==
    IF stream
    THEN JObj([streamed |-> JBool(TRUE), total |-> JInt(Len(items))])
    ELSE JObj([items |-> JArr(items), total |-> JInt(Len(items))])

InitSearch ==
    /\ pc = "request"
    /\ args \in SearchArgs
    /\ all_items = <<>> /\ next_page = None /\ page_num = 1
    /\ requests = <<>> /\ pages = <<>> /\ printed = <<>>
    /\ value = Null /\ field_name = <<>> /\ outcome = None
    /\ BuilderIdle /\ RenderIdle /\ MarksIdle

(* the request of one turn of the loop: the first carries no continuation, *)
(* a later one the token (Jira) or the URL (Confluence) in next_page       *)
SendRequest ==
    /\ pc = "request"
    /\ requests' = Append(requests, next_page)
    /\ pc' = "awaiting"
    /\ UNCHANGED <<value, field_name, outcome, builderVars, renderVars,
        markVars, args, all_items, next_page, page_num, pages, printed>>

(* send().await?, the bail! on a non-success status, response.json()? *)
RequestFails ==
    /\ pc = "awaiting"
    /\ \E kind \in FailureKinds : outcome' = Err(<<kind>>)
    /\ pc' = "failed"
    /\ UNCHANGED <<value, field_name, builderVars, renderVars, markVars,
        searchVars>>

(* the rest of the turn, once `items` were read from the page `data` and   *)
(* `next` is the continuation for the request after it                     *)
EndOfTurn(data, items, breaks, next) ==
    /\ pages' = Append(pages, data)
    /\ printed' = IF args.stream THEN printed \o items ELSE printed
    /\ all_items' = all_items \o items
    /\ next_page' = next
    /\ IF breaks
       THEN /\ outcome' = Ok(search_result(args.stream, all_items \o items))
            /\ pc' = "done"
            /\ UNCHANGED page_num
       ELSE /\ page_num < MaxPages
            /\ page_num' = page_num + 1
            /\ pc' = "request"
            /\ UNCHANGED outcome
    /\ UNCHANGED <<value, field_name, builderVars, renderVars, markVars,
        args, requests>>

(* jira/api.rs search_all, from response.json() to the end of the turn *)
ReceiveJiraPage ==
    /\ pc = "awaiting"
    /\ args.api = "jira"
    /\ \E body \in JiraResponses :
         LET data == filter_apply(body)
             issues == array_or_default(data, "issues")
         IN EndOfTurn(data, processed_issues(issues, args.as_markdown),
                      loop_breaks(next_page_token(data), Len(issues)),
                      next_page_token(data))

(* confluence/api.rs search_all, from the fetched page to the end of the   *)
(* turn; next_url is assigned only when the loop goes on                   *)
ReceiveConfluencePage ==
    /\ pc = "awaiting"
    /\ args.api = "confluence"
    /\ \E data \in ConfluenceResponses :
         LET results == array_or_default(data, "results")
             breaks == loop_breaks(next_path(data), Len(results))
         IN EndOfTurn(data, results, breaks,
                      IF breaks THEN next_page
                      ELSE Some(build_next_url(links_base(data),
                                               next_path(data).v)))

NextSearch ==
    \/ SendRequest
    \/ RequestFails
    \/ ReceiveJiraPage
    \/ ReceiveConfluencePage

SpecSearch == InitSearch /\ [][NextSearch]_vars

-----------------------------------------------------------------------------
(* Claims about search_all *)

(* the items of a page: its issues (Jira) or results (Confluence) array *)
ItemsOfPage(page) ==
    LET key == IF args.api = "jira" THEN "issues" ELSE "results"
    IN IF page.k = "obj" /\ key \in DOMAIN page.o /\ page.o[key].k = "arr"
       THEN page.o[key].a
       ELSE <<>>

(* the next-page token (Jira) or link (Confluence) a page carries *)
ContinuationOfPage(page) ==
    LET holder == IF args.api = "jira" THEN page ELSE Get(page, "_links")
        key == IF args.api = "jira" THEN "nextPageToken" ELSE "next"
    IN IF holder.k = "obj" /\ key \in DOMAIN holder.o
          /\ holder.o[key].k = "str"
       THEN Some(holder.o[key].s)
       ELSE None

LastPage(page) ==
    ContinuationOfPage(page) = None \/ ItemsOfPage(page) = <<>>

RECURSIVE ItemsOfPages(_)
ItemsOfPages(n) ==
    IF n = 0 THEN <<>> ELSE ItemsOfPages(n - 1) \o ItemsOfPage(pages[n])

IdsOf(items) == [i \in DOMAIN items |-> Get(items[i], "id")]

EndsWith(x, s) ==
    Len(s) <= Len(x) /\ SubSeq(x, Len(x) - Len(s) + 1, Len(x)) = s

OneAtATime ==
    /\ Len(requests) - Len(pages) \in {0, 1}
    /\ Len(requests) > Len(pages) <=> pc \in {"awaiting", "failed"}

ContinuationCarried ==
    \A k \in 1..Len(requests) :
        IF k = 1
        THEN requests[k] = None
        ELSE /\ requests[k] # None
             /\ ContinuationOfPage(pages[k - 1]) # None
             /\ IF args.api = "jira"
                THEN requests[k].v = ContinuationOfPage(pages[k - 1]).v
                ELSE EndsWith(requests[k].v,
                              ContinuationOfPage(pages[k - 1]).v)

StopsAtLastPage ==
    \A k \in 1..Len(pages) :
        LastPage(pages[k]) <=> (k = Len(pages) /\ pc = "done")

TotalReported ==
    pc = "done" =>
        /\ outcome.ok
        /\ Get(outcome.value, "total")
              = JInt(Len(ItemsOfPages(Len(pages))))
        /\ IdsOf(all_items) = IdsOf(ItemsOfPages(Len(pages)))
        /\ IF args.stream
           THEN /\ printed = all_items
                /\ Get(outcome.value, "items") = None
           ELSE /\ printed = <<>>
                /\ Get(outcome.value, "items") = JArr(all_items)

ErrorWithoutResult ==
    /\ pc = "failed" => outcome \in {Err(<<kind>>) : kind \in FailureKinds}
    /\ pc \in {"request", "awaiting"} => outcome = None

RequestInTurn ==
    Len(requests') > Len(requests) =>
        /\ Len(requests) = Len(pages)
        /\ Len(requests') = Len(requests) + 1
        /\ pages' = pages

ConfluenceSecondRequestFails ==
    /\ pc = "failed"
    /\ args.api = "confluence"
    /\ requests = <<None, Some(LinksBase \o RelativeNext)>>
    /\ Len(pages) = 1

====
